---------------------------- MODULE Spec2Model ----------------------------
(***************************************************************************)
(* A model of the path tracer: the BVH builder (src/src/bvh.rs), the ray   *)
(* kernel and bounce loop (src/src/ray.rs), the texture lookup             *)
(* (src/src/texture.rs), the scene loader's material table                 *)
(* (src/src/loader/obj.rs, src/src/scene.rs), the parallel pixel driver    *)
(* (src/src/renderer.rs) and the window application's render hand-off      *)
(* (src/src/app.rs).                                                       *)
(*                                                                         *)
(* Indices are 0-based as in the Rust source; TLA+ sequences are 1-based,  *)
(* so element k of a Vec v is v[k + 1] (operator At).                      *)
(*                                                                         *)
(* Vertex coordinates are small integers, on which every f32 operation of  *)
(* the builder is exact, or f32::MAX and its negative.  A centroid is kept *)
(* times 3 (Mid3) and a split position times 8 (SplitPos8), so that        *)
(* "mid < split_pos" is decided without rounding: mid/3 and pos/8 differ   *)
(* by at least 1/24 when they differ, far more than an f32 ulp at these    *)
(* magnitudes.                                                             *)
(***************************************************************************)
EXTENDS Integers, Sequences, FiniteSets, TLC

(***************************************************************************)
(* Bounds of the model.                                                    *)
(***************************************************************************)
MaxTris == 3

(***************************************************************************)
(* f32 values.  Finite values are integers; the special values the builder *)
(* produces are encoded as integers beyond every finite value, in the      *)
(* order  NegInf < -F32_MAX < finite < F32_MAX < PosInf, with NaN apart.   *)
(***************************************************************************)
F32_MAX == 1000000000
PosInf == F32_MAX + 1
NegInf == 0 - PosInf
NaN == PosInf + 1

IsNaN(a) == a = NaN
IsInf(a) == a = PosInf \/ a = NegInf
IsBig(a) == a = F32_MAX \/ a = 0 - F32_MAX
Sign(a) == IF a > 0 THEN 1 ELSE IF a < 0 THEN -1 ELSE 0
SignedInf(s) == IF s > 0 THEN PosInf ELSE NegInf

\* a + b in f32 (round to nearest; F32_MAX absorbs a small addend).
FAdd(a, b) ==
    IF IsNaN(a) \/ IsNaN(b) THEN NaN
    ELSE IF IsInf(a) /\ IsInf(b) THEN (IF a = b THEN a ELSE NaN)
    ELSE IF IsInf(a) THEN a
    ELSE IF IsInf(b) THEN b
    ELSE IF IsBig(a) /\ IsBig(b) THEN (IF a = b THEN SignedInf(a) ELSE 0)
    ELSE IF IsBig(a) THEN a
    ELSE IF IsBig(b) THEN b
    ELSE a + b

FNeg(a) == IF IsNaN(a) THEN NaN ELSE 0 - a

FSub(a, b) == FAdd(a, FNeg(b))

\* a * b in f32.
FMul(a, b) ==
    IF IsNaN(a) \/ IsNaN(b) THEN NaN
    ELSE IF IsInf(a) \/ IsInf(b)
         THEN (IF a = 0 \/ b = 0 THEN NaN ELSE SignedInf(Sign(a) * Sign(b)))
    ELSE IF IsBig(a) \/ IsBig(b)
         THEN (IF a = 0 \/ b = 0 THEN 0
               ELSE IF a \in {1, -1} \/ b \in {1, -1}
                    THEN Sign(a) * Sign(b) * F32_MAX
               ELSE SignedInf(Sign(a) * Sign(b)))
    ELSE a * b

\* IEEE comparisons: every comparison with NaN is false.
FLt(a, b) == ~IsNaN(a) /\ ~IsNaN(b) /\ a < b
FGe(a, b) == ~IsNaN(a) /\ ~IsNaN(b) /\ a >= b
FGt(a, b) == ~IsNaN(a) /\ ~IsNaN(b) /\ a > b

\* f32::min / f32::max: a NaN operand is ignored.
FMin(a, b) == IF IsNaN(a) THEN b ELSE IF IsNaN(b) THEN a ELSE IF a < b THEN a ELSE b
FMax(a, b) == IF IsNaN(a) THEN b ELSE IF IsNaN(b) THEN a ELSE IF a > b THEN a ELSE b

(***************************************************************************)
(* Vec helpers.                                                            *)
(***************************************************************************)
At(v, k) == v[k + 1]
Axes == 1 .. 3
Swap(v, a, b) == [v EXCEPT ![a + 1] = v[b + 1], ![b + 1] = v[a + 1]]

(***************************************************************************)
(* scene.rs: Triangle.  vertices is a 3-tuple of positions <<x, y, z>>.    *)
(***************************************************************************)
Triangle(vertices, material_id) ==
    [vertices |-> vertices, material_id |-> material_id]

\* A triangle with the normals and the texture coordinates of its three
\* vertices, in the order of vertices.
Shaded(vertices, material_id, normals, tex_coords) ==
    [vertices |-> vertices, material_id |-> material_id, normals |-> normals,
     tex_coords |-> tex_coords]

\* Triangle::mid, times 3, on one axis: the f32 sum of the three positions
\* in the order of the vertices, which mid divides by 3.0.
Mid3(tri, axis) ==
    FAdd(FAdd(tri.vertices[1][axis], tri.vertices[2][axis]),
         tri.vertices[3][axis])

(***************************************************************************)
(* bvh.rs: Node.                                                           *)
(***************************************************************************)
NodeDefault ==
    [bounds_min |-> <<F32_MAX, F32_MAX, F32_MAX>>,
     bounds_max |-> <<0 - F32_MAX, 0 - F32_MAX, 0 - F32_MAX>>,
     children_id |-> 0,
     first_tri_id |-> 0,
     num_tris |-> 0]

GrowByVertex(node, vert) ==
    [node EXCEPT
        !.bounds_min = << FMin(@[1], vert[1]), FMin(@[2], vert[2]),
                          FMin(@[3], vert[3]) >>,
        !.bounds_max = << FMax(@[1], vert[1]), FMax(@[2], vert[2]),
                          FMax(@[3], vert[3]) >>]

GrowByTwoVertices(node, tri) ==
    GrowByVertex(GrowByVertex(node, tri.vertices[1]), tri.vertices[2])

grow_by_tri(node, tri) ==
    GrowByVertex(GrowByVertex(GrowByVertex(node, tri.vertices[1]),
                              tri.vertices[2]), tri.vertices[3])

\* grow_by_tri over tris[first .. first + count - 1] (0-based), in order.
RECURSIVE GrowRange(_, _, _, _)
GrowRange(node, tris, first, count) ==
    IF count = 0 THEN node
    ELSE grow_by_tri(GrowRange(node, tris, first, count - 1),
                     At(tris, first + count - 1))

extent(node) ==
    << FSub(node.bounds_max[1], node.bounds_min[1]),
       FSub(node.bounds_max[2], node.bounds_min[2]),
       FSub(node.bounds_max[3], node.bounds_min[3]) >>

surface_area(node) ==
    LET e == extent(node)
    IN  FAdd(FAdd(FMul(e[1], e[3]), FMul(e[1], e[2])), FMul(e[3], e[2]))

(***************************************************************************)
(* bvh.rs: split selection.                                                *)
(***************************************************************************)
NUM_BINS == 8

IsSmall(a) == a > 0 - F32_MAX /\ a < F32_MAX

\* split_pos = bounds_min[axis] + i * (extent[axis] / NUM_BINS), times
\* NUM_BINS when it is small and itself otherwise (axis is 0-based as in the
\* source).  A bound of f32::MAX absorbs a small step; an infinite or NaN
\* extent stays so when divided.  An extent of f32::MAX, whose eighth is
\* finite, is taken for bin 0 only, where the step is 0.
SplitPos8(node, axis, i) ==
    LET e == extent(node)[axis + 1]
        m == node.bounds_min[axis + 1]
    IN  CASE IsSmall(e) /\ IsSmall(m) -> NUM_BINS * m + i * e
          [] IsSmall(e) /\ ~IsSmall(m) -> m
          [] ~IsSmall(e) /\ ~IsBig(e) -> FAdd(m, FMul(i, e))
          [] IsBig(e) /\ i = 0 -> IF IsSmall(m) THEN NUM_BINS * m ELSE m

\* tri.mid().data[axis] < split_pos.  A sum of f32::MAX gives a mid of a
\* third of it, which lies below f32::MAX and above its negative.
MidLess(tri, axis, pos8) ==
    LET mid3 == Mid3(tri, axis + 1)
    IN  IF IsSmall(pos8) /\ IsSmall(mid3) THEN NUM_BINS * mid3 < 3 * pos8
        ELSE IF IsBig(mid3) /\ IsBig(pos8) THEN pos8 > 0
        ELSE FLt(mid3, pos8)

\* The left and right boxes of evaluate_sah after the first count triangles
\* of the node.
RECURSIVE SahSides(_, _, _, _, _)
SahSides(tris, node, axis, pos8, count) ==
    IF count = 0 THEN [left |-> NodeDefault, right |-> NodeDefault]
    ELSE LET s == SahSides(tris, node, axis, pos8, count - 1)
             tri == At(tris, node.first_tri_id + count - 1)
         IN  IF MidLess(tri, axis, pos8)
             THEN [s EXCEPT !.left = [grow_by_tri(s.left, tri) EXCEPT
                                          !.num_tris = s.left.num_tris + 1]]
             ELSE [s EXCEPT !.right = [grow_by_tri(s.right, tri) EXCEPT
                                          !.num_tris = s.right.num_tris + 1]]

evaluate_sah(tris, node, split_axis, split_pos8) ==
    LET s == SahSides(tris, node, split_axis, split_pos8, node.num_tris)
        cost == FAdd(FMul(s.left.num_tris, surface_area(s.left)),
                     FMul(s.right.num_tris, surface_area(s.right)))
    IN  IF FGt(cost, 0) THEN cost ELSE F32_MAX

\* The incumbent after the first c candidates of the double loop of
\* split_node, candidate c being (split_axis c \div NUM_BINS, bin c % NUM_BINS).
\* Candidate c of the double loop of split_node is split_axis c \div NUM_BINS,
\* bin c % NUM_BINS.
Candidate(tris, node, c) ==
    LET split_axis == c \div NUM_BINS
        split_pos8 == SplitPos8(node, split_axis, c % NUM_BINS)
    IN  [best_split_axis |-> split_axis,
         best_split_pos8 |-> split_pos8,
         best_split_cost |-> evaluate_sah(tris, node, split_axis, split_pos8)]

\* The incumbent after the candidates c, c + 1, ... of the double loop, best
\* being the incumbent before candidate c and cands the candidates.
RECURSIVE BestFrom(_, _, _)
BestFrom(cands, c, best) ==
    IF c = 3 * NUM_BINS THEN best
    ELSE BestFrom(cands, c + 1,
                  IF FLt(cands[c + 1].best_split_cost, best.best_split_cost)
                  THEN cands[c + 1] ELSE best)

Candidates(tris, node) ==
    << Candidate(tris, node, 0), Candidate(tris, node, 1),
       Candidate(tris, node, 2), Candidate(tris, node, 3),
       Candidate(tris, node, 4), Candidate(tris, node, 5),
       Candidate(tris, node, 6), Candidate(tris, node, 7),
       Candidate(tris, node, 8), Candidate(tris, node, 9),
       Candidate(tris, node, 10), Candidate(tris, node, 11),
       Candidate(tris, node, 12), Candidate(tris, node, 13),
       Candidate(tris, node, 14), Candidate(tris, node, 15),
       Candidate(tris, node, 16), Candidate(tris, node, 17),
       Candidate(tris, node, 18), Candidate(tris, node, 19),
       Candidate(tris, node, 20), Candidate(tris, node, 21),
       Candidate(tris, node, 22), Candidate(tris, node, 23) >>

NoBest ==
    [best_split_axis |-> 0, best_split_pos8 |-> 0, best_split_cost |-> F32_MAX]

BestSplit(tris, node) == BestFrom(Candidates(tris, node), 0, NoBest)

parent_cost(node) == FMul(node.num_tris, surface_area(node))

(***************************************************************************)
(* The triangles the model builds on: unit right triangles in the three    *)
(* coordinate planes.  Shapes[1] is the triangle of the specification's    *)
(* scenarios, Shapes[2] its mirror image in the same box.  A pool entry    *)
(* <<s, axis, d>> is shape s moved by d along axis.                        *)
(***************************************************************************)
Shapes ==
    << << <<0, 0, 0>>, <<1, 0, 0>>, <<0, 1, 0>> >>,
       << <<1, 1, 0>>, <<1, 0, 0>>, <<0, 1, 0>> >>,
       << <<0, 0, 0>>, <<0, 1, 0>>, <<0, 0, 1>> >>,
       << <<0, 0, 0>>, <<0, 0, 1>>, <<1, 0, 0>> >> >>

Placements ==
    { <<1, 1, 0>>, <<2, 1, 0>>, <<1, 1, 3>>, <<3, 2, 2>>, <<4, 3, 5>>, <<2, 2, 1>> }

Moved(shape, axis, d) ==
    LET Pt(p) == << IF axis = 1 THEN p[1] + d ELSE p[1],
                    IF axis = 2 THEN p[2] + d ELSE p[2],
                    IF axis = 3 THEN p[3] + d ELSE p[3] >>
    IN  << Pt(shape[1]), Pt(shape[2]), Pt(shape[3]) >>

TriPool == { Triangle(Moved(Shapes[p[1]], p[2], p[3]), 0) : p \in Placements }

SeqsUpTo(S, n) == UNION { [1 .. k -> S] : k \in 0 .. n }


(***************************************************************************)
(* vector.rs: colours.  A channel is written in thousandths, so that 1.0   *)
(* is Milli and the 0.05 and 0.005 of the debug view are 50 and 5.  Sums   *)
(* are exact; a product is cut to the thousandth below.                    *)
(***************************************************************************)
Milli == 1000

White == <<Milli, Milli, Milli>>
Black == <<0, 0, 0>>

\* Vec3f + Vec3f
VAdd(a, b) == [c \in 1 .. 3 |-> a[c] + b[c]]

\* Vec3f * Vec3f, channel by channel
VMul(a, b) == [c \in 1 .. 3 |-> (a[c] * b[c]) \div Milli]

\* From<[u8; 3]> for Vec3f: each byte over 255.
FromBytes(bytes) == [c \in 1 .. 3 |-> (bytes[c] * Milli) \div 255]

(***************************************************************************)
(* vector.rs: Vec3f as a point or a direction, a 3-tuple of integers.      *)
(***************************************************************************)
\* Vec3f - Vec3f
VSub(a, b) == [c \in 1 .. 3 |-> a[c] - b[c]]

\* Vec3f * f32
VScale(a, s) == [c \in 1 .. 3 |-> a[c] * s]

dot(a, b) == (a[1] * b[1]) + (a[2] * b[2]) + (a[3] * b[3])

cross(a, b) ==
    << (a[2] * b[3]) - (a[3] * b[2]),
       (a[3] * b[1]) - (a[1] * b[3]),
       (a[1] * b[2]) - (a[2] * b[1]) >>

reversed(a) == [c \in 1 .. 3 |-> 0 - a[c]]

Abs(x) == IF x < 0 THEN 0 - x ELSE x

\* Vec3f::length of a vector along one axis, where the square root is
\* exact.
length(a) ==
    CASE Cardinality({ c \in 1 .. 3 : a[c] # 0 }) <= 1 ->
             Abs(a[1]) + Abs(a[2]) + Abs(a[3])

\* Vec3f::normalized of a vector along one axis, other than 0.
normalized(a) ==
    CASE length(a) # 0 -> [c \in 1 .. 3 |-> a[c] \div length(a)]

\* Vec3f::distance of two points that differ along one axis.
distance(a, b) == length(VSub(a, b))

reflect(incident, normal) ==
    VSub(incident, VScale(normal, 2 * dot(incident, normal)))

\* Vec3f::refract for eta a fraction <<numerator, denominator>> between a
\* half and 2, where the incident ray runs against the unit normal: k is 1
\* and its square root exact, 1.0 - eta is exact, and so is the sum of eta
\* and it.
refract(incident, normal, eta) ==
    LET n_dot_i == dot(normal, incident)
    IN  CASE /\ n_dot_i = -1
             /\ incident = reversed(normal)
             /\ eta[1] > 0 /\ eta[2] > 0
             /\ eta[1] <= 2 * eta[2] /\ eta[2] <= 2 * eta[1] ->
                 [c \in 1 .. 3 |->
                     ((eta[1] * incident[c])
                          - (((eta[1] * n_dot_i) + eta[2]) * normal[c]))
                     \div eta[2]]
(***************************************************************************)
(* State of the builder.                                                   *)
(*   input   the triangle list handed to BVH::build (kept for a rebuild)   *)
(*   tris    scene.tris                                                    *)
(*   nodes   the local bvh.nodes of BVH::build                             *)
(*   bvh     scene.bvh.nodes                                               *)
(*   stack   the pending split_node calls, innermost first                 *)
(*   split   best_split_axis / best_split_pos of the running split_node    *)
(*   i, j    the sweep indices of the running split_node                   *)
(*   pc      "load", "build", "split", "partition", "done", "panic" or     *)
(*           "load_panic"                                                  *)
(*   run     1 for the first build of the input, 2 for the second          *)
(*   first   nodes and tris as the first build left them                   *)
(***************************************************************************)
VARIABLES input, tris, nodes, bvh, stack, split, i, j, pc, run, first

(***************************************************************************)
(* State of the loader and of one call of Ray::trace.                      *)
(*   file          the .obj file given to Scene::load                      *)
(*   materials     scene.materials                                         *)
(*   textures      scene.textures                                          *)
(*   tpc           where Ray::trace stands: "idle", "loop", "traverse",    *)
(*                 "debug", "shade", "color_at", "wrap_down", "wrap_up",   *)
(*                 "texel", "emission", "bounce", "returned" or "panic"    *)
(*   max_bounces, debug_bvh   the parameters of the call                   *)
(*   curr_bounces  the loop counter of Ray::trace                          *)
(*   descents      how many times the call entered the BVH at the root     *)
(*   tstack        the pending traverse_bvh / debug_bvh calls, innermost   *)
(*                 first                                                   *)
(*   hit_info      the HitInfo of the running loop iteration               *)
(*   sample        the running Texture::color_at: the texture id, index,   *)
(*                 the place of the call (after) and the parity of the     *)
(*                 wrap-loop iterations executed (iter)                    *)
(*   light         the ray (origin, direction) and the locals ray_color,   *)
(*                 incoming_light, emitted_light, prev_hit_point,          *)
(*                 transmitted_distance, ior and new_dir of Ray::trace,    *)
(*                 and the value it returned (result)                      *)
(*   walk          the running descent into the BVH, where it is kept for  *)
(*                 a property to read: the nodes visited so                *)
(*                 far with the outcome of their slab test, and the        *)
(*                 triangles tested so far with what intersect_tri         *)
(*                 returned                                                *)
(***************************************************************************)
VARIABLES file, materials, textures, tpc, max_bounces, debug_bvh,
          curr_bounces, descents, tstack, hit_info, sample, light, walk

(***************************************************************************)
(* State of the window application.                                        *)
(*   scene         App::scene: "Unset" before Scene::load, then "Some" or  *)
(*                 "None"                                                  *)
(*   camera_dirty  App::camera_dirty                                       *)
(*   is_rendering  the boolean behind the is_rendering mutex               *)
(*   frame_buffer  the buffer behind the frame_buffer mutex: 0 for the     *)
(*                 initial one, t for the one render thread t stored       *)
(*   ui            where the UI thread stands                              *)
(*   ret           where the running start_render returns to               *)
(*   threads       where each render thread stands ("none": not running)   *)
(*   locks         the holder of each mutex: nobody, the UI or a thread    *)
(*   auto_rotate   App::auto_rotate                                        *)
(*   last_ui_change  App::last_ui_change: "None", or Some(t) with t less   *)
(*                 than 150 ms ago ("recent") or at least 150 ms ago       *)
(*                 ("old")                                                 *)
(*   mouse_down    App::mouse_left_down || App::mouse_right_down           *)
(*   ui_pointer_down  App::ui_pointer_down                                 *)
(*   pixels        the frame of the window: the buffer App::update copied  *)
(*                 last                                                    *)
(*   completed     the buffer of the render that was the last to set       *)
(*                 is_rendering back to false (0: none yet)                *)
(***************************************************************************)
VARIABLES scene, camera_dirty, is_rendering, frame_buffer, ui, ret, threads,
          locks, auto_rotate, last_ui_change, mouse_down, ui_pointer_down,
          pixels, completed

(***************************************************************************)
(* State of one Renderer::render_to_image.                                 *)
(*   image       width, height and bytes of the Image                      *)
(*   parameters  samples, max_ray_depth and debug_mode of the Renderer,    *)
(*               and the scene render_to_image is called with              *)
(*   blocks      the uniform blocks: the number of threads of the pool,    *)
(*               the start of the running block and the indices of it no   *)
(*               worker has taken yet                                      *)
(*   workers     each worker of the pool: its pixel index and the locals   *)
(*               of the closure it runs                                    *)
(*   collected   the closure results collected so far, by index            *)
(***************************************************************************)
VARIABLES image, parameters, blocks, workers, collected

(***************************************************************************)
(* State of the saves of a frame (Image::write_to_path).                   *)
(*   output_ppm  the bytes of the file at the path, as characters; <<>>    *)
(*               when there is no file                                     *)
(*   saved       write_to_path has returned for the image in hand          *)
(***************************************************************************)
VARIABLES output_ppm, saved

(***************************************************************************)
(* State of OBJ::load_mtl read line by line.                               *)
(*   lines     the lines the peekable iterator has not given out yet       *)
(*   material  the material of the newmtl block being read, if any         *)
(***************************************************************************)
VARIABLES lines, material

bvhVars == <<input, tris, nodes, bvh, stack, split, i, j, pc, run, first>>

traceVars == <<file, materials, textures, tpc, max_bounces, debug_bvh,
               curr_bounces, descents, tstack, hit_info, sample, light, walk>>

appVars == <<scene, camera_dirty, is_rendering, frame_buffer, ui, ret,
             threads, locks, auto_rotate, last_ui_change, mouse_down,
             ui_pointer_down, pixels, completed>>

renderVars == <<image, parameters, blocks, workers, collected>>

diskVars == <<output_ppm, saved, lines, material>>

vars == <<bvhVars, traceVars, appVars, renderVars, diskVars>>

(***************************************************************************)
(* The parts of the state a specification does not run stay as they are    *)
(* here throughout.                                                        *)
(***************************************************************************)
NoLine == [exists |-> FALSE, format |-> "", width |-> 0, height |-> 0,
           image_size |-> 0]

\* A mutex nobody holds.
Free == [by |-> "free", id |-> 0]

NoObj == [mtllib |-> [line |-> FALSE, exists |-> FALSE, newmtl |-> <<>>],
          usemtl |-> "", vt |-> <<0, 0>>, faces |-> 0]

\* HitInfo::default.
HitInfoDefault ==
    [has_hit |-> FALSE, point |-> <<0, 0, 0>>, normal |-> <<0, 0, 0>>,
     distance |-> F32_MAX, uv |-> <<0, 0>>, material_id |-> 0,
     front_face |-> FALSE]

\* The ray and the locals of Ray::trace at its entry; result is what it
\* returned, the light over the divisor.  Points and distances are in
\* ten-thousandths, a direction is a unit vector along an axis.  ior, a
\* fraction <<numerator, denominator>>, and new_dir are declared in the hit
\* branch and have no value before.
NoLight ==
    [origin |-> <<0, 0, 0>>, direction |-> <<0, 0, 1>>,
     ray_color |-> White, incoming_light |-> Black, emitted_light |-> Black,
     prev_hit_point |-> <<0, 0, 0>>, transmitted_distance |-> 0,
     ior |-> <<0, 1>>, new_dir |-> <<0, 0, 0>>,
     result |-> [light |-> Black, over |-> 1]]

\* No descent is recorded yet; kept says whether traverse_bvh is recorded
\* at all (debug_bvh always is).
NoWalk == [kept |-> FALSE, nodes |-> <<>>, tris |-> <<>>]

NoSample == [tex |-> 0, index |-> 0, after |-> "", iter |-> 0]

TraceIdle ==
    /\ file = NoObj
    /\ materials = <<>>
    /\ textures = <<>>
    /\ tpc = "idle"
    /\ max_bounces = 0
    /\ debug_bvh = FALSE
    /\ curr_bounces = 0
    /\ descents = 0
    /\ tstack = <<>>
    /\ hit_info = HitInfoDefault
    /\ sample = NoSample
    /\ light = NoLight
    /\ walk = NoWalk

AppIdle ==
    /\ scene = "Unset"
    /\ camera_dirty = TRUE
    /\ is_rendering = FALSE
    /\ frame_buffer = 0
    /\ ui = "off"
    /\ ret = "events"
    /\ threads = <<>>
    /\ locks = [is_rendering |-> Free, frame_buffer |-> Free]
    /\ auto_rotate = FALSE
    /\ last_ui_change = "None"
    /\ mouse_down = FALSE
    /\ ui_pointer_down = FALSE
    /\ pixels = 0
    /\ completed = 0

RenderIdle ==
    /\ image = [width |-> 0, height |-> 0, bytes |-> <<>>]
    /\ parameters = [samples |-> 0, max_ray_depth |-> 0, debug_mode |-> FALSE,
                    scene |-> 0]
    /\ blocks = [num_threads |-> 0, start |-> 0, pending |-> {}, state |-> "off"]
    /\ workers = <<>>
    /\ collected = <<>>


\* load_mtl is outside a newmtl block: no material is being read.  Of a
\* material being read the name, base_color and ior are kept.
NoMaterial == [open |-> FALSE, name |-> "", base_color |-> <<0, 0, 0>>,
               ior |-> <<0, 1>>]

\* No material file is being read.
MtlIdle ==
    /\ lines = <<>>
    /\ material = NoMaterial

\* No file at the path of the saved image, nothing saved, and no material
\* file being read.
DiskIdle ==
    /\ output_ppm = <<>>
    /\ saved = FALSE
    /\ MtlIdle
USIZE_MAX == 2147483647

NoSplit == [best_split_axis |-> 0, best_split_pos8 |-> 0]
NoFirst == [nodes |-> <<>>, tris |-> <<>>]

InitBuild(list) ==
    /\ input = list
    /\ tris = list
    /\ nodes = <<>>
    /\ bvh = <<>>
    /\ stack = <<>>
    /\ split = NoSplit
    /\ i = 0
    /\ j = 0
    /\ pc = "build"
    /\ run = 1
    /\ first = NoFirst

Panic == /\ pc' = "panic"
         /\ UNCHANGED <<input, tris, nodes, bvh, stack, split, i, j, run, first>>

\* A build that pushes its root onto the nodes scene.bvh holds.
BuildRootOntoScene ==
    /\ pc = "build"
    /\ nodes' = Append(bvh, [GrowRange(NodeDefault, tris, 0, Len(tris)) EXCEPT
                                 !.num_tris = Len(tris)])
    /\ stack' = <<0>>
    /\ pc' = "split"
    /\ UNCHANGED <<input, tris, bvh, split, i, j, run, first>>

\* BVH::build up to the call of split_node(0): a new BVH with the root as
\* its only node.
BuildRoot ==
    /\ pc = "build"
    /\ nodes' = << [GrowRange(NodeDefault, tris, 0, Len(tris)) EXCEPT
                        !.num_tris = Len(tris)] >>
    /\ stack' = <<0>>
    /\ pc' = "split"
    /\ UNCHANGED <<input, tris, bvh, split, i, j, run, first>>

\* split_node from the cost test to the set-up of the sweep, best being the
\* selected candidate.
SplitWith(best) ==
    LET node == At(nodes, Head(stack))
    IN  IF FGe(best.best_split_cost, parent_cost(node))
        THEN /\ stack' = Tail(stack)
             /\ UNCHANGED <<input, tris, nodes, bvh, split, i, j, pc, run, first>>
        ELSE IF node.first_tri_id + node.num_tris - 1 < 0
        THEN \* usize underflow: a panic with overflow checks, a wrap without
             \/ Panic
             \/ /\ split' = [best_split_axis |-> best.best_split_axis,
                             best_split_pos8 |-> best.best_split_pos8]
                /\ i' = node.first_tri_id
                /\ j' = USIZE_MAX
                /\ pc' = "partition"
                /\ UNCHANGED <<input, tris, nodes, bvh, stack, run, first>>
        ELSE /\ split' = [best_split_axis |-> best.best_split_axis,
                          best_split_pos8 |-> best.best_split_pos8]
             /\ i' = node.first_tri_id
             /\ j' = node.first_tri_id + node.num_tris - 1
             /\ pc' = "partition"
             /\ UNCHANGED <<input, tris, nodes, bvh, stack, run, first>>

\* split_node from its entry to the set-up of the sweep.
SplitNode ==
    /\ pc = "split"
    /\ stack # <<>>
    /\ SplitWith(BestSplit(tris, At(nodes, Head(stack))))

\* A sweep that steps over the triangle it has just swapped in.
PartitionStepBoth ==
    /\ pc = "partition"
    /\ i <= j
    /\ IF i >= Len(tris) THEN Panic
       ELSE IF MidLess(At(tris, i), split.best_split_axis, split.best_split_pos8)
       THEN /\ i' = i + 1
            /\ UNCHANGED <<input, tris, nodes, bvh, stack, split, j, pc, run, first>>
       ELSE IF j >= Len(tris) \/ j = 0 THEN Panic
       ELSE /\ tris' = Swap(tris, i, j)
            /\ i' = i + 1
            /\ j' = j - 1
            /\ UNCHANGED <<input, nodes, bvh, stack, split, pc, run, first>>

\* One iteration of the sweep "while i <= j".
PartitionStep ==
    /\ pc = "partition"
    /\ i <= j
    /\ IF i >= Len(tris) THEN Panic
       ELSE IF MidLess(At(tris, i), split.best_split_axis, split.best_split_pos8)
       THEN /\ i' = i + 1
            /\ UNCHANGED <<input, tris, nodes, bvh, stack, split, j, pc, run, first>>
       ELSE IF j >= Len(tris) THEN Panic
       ELSE IF j = 0
       THEN \* j -= 1 at 0: a panic with overflow checks, a wrap without
            \/ Panic
            \/ /\ tris' = Swap(tris, i, j)
               /\ j' = USIZE_MAX
               /\ UNCHANGED <<input, nodes, bvh, stack, split, i, pc, run, first>>
       ELSE /\ tris' = Swap(tris, i, j)
            /\ j' = j - 1
            /\ UNCHANGED <<input, nodes, bvh, stack, split, i, pc, run, first>>

\* The left child: the first a_count triangles of the node's range.
ChildA(ts, node, a_count) ==
    GrowRange([NodeDefault EXCEPT !.first_tri_id = node.first_tri_id,
                                  !.num_tris = a_count],
              ts, node.first_tri_id, a_count)

ChildBOverlap(ts, node, first_b, a_count) ==
    GrowRange([NodeDefault EXCEPT !.first_tri_id = node.first_tri_id,
                                  !.num_tris = node.num_tris - a_count],
              ts, node.first_tri_id, node.num_tris - a_count)

\* The right child: the rest of the node's range, from the index first_b at
\* which the sweep ended.
ChildB(ts, node, first_b, a_count) ==
    GrowRange([NodeDefault EXCEPT !.first_tri_id = first_b,
                                  !.num_tris = node.num_tris - a_count],
              ts, first_b, node.num_tris - a_count)

InteriorOffByOne(node, used_nodes) ==
    [node EXCEPT !.children_id = used_nodes + 1, !.num_tris = 0]

\* An interior node that keeps its triangle count.
InteriorKeepsCount(node, used_nodes) ==
    [node EXCEPT !.children_id = used_nodes]

\* The split node itself, once it has children.
Interior(node, used_nodes) ==
    [node EXCEPT !.children_id = used_nodes, !.num_tris = 0]

\* split_node after the sweep: the degenerate return, or the two children
\* and the two recursive calls (left first).
PartitionEnd ==
    /\ pc = "partition"
    /\ i > j
    /\ LET index == Head(stack)
           node == At(nodes, index)
           used_nodes == Len(nodes)
           a_count == i - node.first_tri_id
       IN  IF a_count = 0 \/ a_count = node.num_tris
           THEN /\ stack' = Tail(stack)
                /\ pc' = "split"
                /\ UNCHANGED <<input, tris, nodes, bvh, split, i, j, run, first>>
           ELSE /\ nodes' = Append(Append(
                              [nodes EXCEPT ![index + 1] = Interior(node, used_nodes)],
                              ChildA(tris, node, a_count)),
                              ChildB(tris, node, i, a_count))
                /\ stack' = <<used_nodes, used_nodes + 1>> \o Tail(stack)
                /\ pc' = "split"
                /\ UNCHANGED <<input, tris, bvh, split, i, j, run, first>>

\* BVH::build after split_node(0) returned: scene.bvh = bvh.
BuildDone ==
    /\ pc = "split"
    /\ stack = <<>>
    /\ bvh' = nodes
    /\ pc' = "done"
    /\ UNCHANGED <<input, tris, nodes, stack, split, i, j, run, first>>

\* A second call BVH::build(scene) on the scene of the first, with
\* scene.tris put back in the order they had: scene.bvh holds the nodes of
\* the first build, and the locals of the first call are left as they
\* ended.
BuildAgain ==
    /\ pc = "done"
    /\ run = 1
    /\ first' = [nodes |-> bvh, tris |-> tris]
    /\ run' = 2
    /\ tris' = input
    /\ pc' = "build"
    /\ UNCHANGED <<input, nodes, bvh, stack, split, i, j>>

Init ==
    /\ \E list \in SeqsUpTo(TriPool, MaxTris) : InitBuild(list)
    /\ TraceIdle
    /\ AppIdle
    /\ DiskIdle
    /\ RenderIdle

Next ==
    \/ BuildRoot /\ UNCHANGED <<traceVars, appVars, renderVars, diskVars>>
    \/ SplitNode /\ UNCHANGED <<traceVars, appVars, renderVars, diskVars>>
    \/ PartitionStep /\ UNCHANGED <<traceVars, appVars, renderVars, diskVars>>
    \/ PartitionEnd /\ UNCHANGED <<traceVars, appVars, renderVars, diskVars>>
    \/ BuildDone /\ UNCHANGED <<traceVars, appVars, renderVars, diskVars>>
    \/ BuildAgain /\ UNCHANGED <<traceVars, appVars, renderVars, diskVars>>

Spec == Init /\ [][Next]_vars

(***************************************************************************)
(* The loader.  An .obj file is taken as what OBJ::load reads from it: the *)
(* mtllib line and the file it names, the usemtl line before the faces,    *)
(* the texture coordinate its faces use (vt) and the number of faces; it   *)
(* has no vn lines.  A material file is the sequence of its                *)
(* newmtl blocks, a block being its name and its map_Kd and map_Ke lines;  *)
(* a map line is given as the file it names (NoLine: the block has no      *)
(* such line).  Of a .bmp file BMP::load uses the header's width, height   *)
(* and image size.                                                         *)
(***************************************************************************)
MaxFaces == 3
MaxBounces == 2

Bmp(w, h, size) ==
    [exists |-> TRUE, format |-> "bmp", width |-> w, height |-> h,
     image_size |-> size]

\* A newmtl block without a Ke line.
NoKe == <<>>

MissingFile == [NoLine EXCEPT !.format = "bmp"]

PngFile == [Bmp(1, 1, 3) EXCEPT !.format = "png"]

\* Material::default, without the fields no branch reads.
DefaultMaterial ==
    [name |-> "default_material", base_color |-> White,
     specular_tint |-> White, emission |-> Black, ior |-> <<145, 100>>,
     base_color_tex_id |-> -1, emission_tex_id |-> -1]

\* The pixel bytes of the .bmp files of the model: white at the even
\* texels, black at the odd ones.
TexelBytes(texel) ==
    IF texel % 2 = 0 THEN <<255, 255, 255>> ELSE <<0, 0, 0>>

\* BMP::load from the read of the image size on: one texel per 3 bytes, and
\* a panic on a size that is no multiple of 3 (pixel_byte_buffer[i + 2]).
\* A texel is written as its index.
BMP_load(f) ==
    IF f.image_size % 3 # 0
    THEN [tag |-> "panic", texture |-> <<>>]
    ELSE [tag |-> "Some",
          texture |-> [width |-> f.width, height |-> f.height,
                       pixel_data |-> [k \in 1 .. f.image_size \div 3 |-> k - 1]]]

Texture_load(f) ==
    IF ~f.exists THEN [tag |-> "None", texture |-> <<>>]
    ELSE IF f.format = "bmp" THEN BMP_load(f)
    ELSE [tag |-> "None", texture |-> <<>>]

\* One map_Kd / map_Ke line of a newmtl block: st holds the material being
\* read, obj.textures and whether the load is still running.
MapLine(st, f, field) ==
    IF f = NoLine \/ ~st.ok THEN st
    ELSE LET texture == Texture_load(f)
         IN  IF texture.tag = "panic" THEN [st EXCEPT !.ok = FALSE]
             ELSE IF texture.tag = "None" THEN st
             ELSE [st EXCEPT !.textures = Append(@, texture.texture),
                             !.material[field] = Len(st.textures)]

RECURSIVE load_mtl(_, _, _)
load_mtl(obj, newmtl, k) ==
    IF k > Len(newmtl) \/ ~obj.ok THEN obj
    ELSE LET st0 == [material |-> [DefaultMaterial EXCEPT
                                      !.name = newmtl[k].name,
                                      !.emission = IF newmtl[k].Ke = NoKe
                                                   THEN @ ELSE newmtl[k].Ke],
                     textures |-> obj.textures, ok |-> TRUE]
             st1 == MapLine(st0, newmtl[k].map_Kd, "base_color_tex_id")
             st2 == MapLine(st1, newmtl[k].map_Ke, "emission_tex_id")
         IN  load_mtl([materials |-> IF st2.ok THEN Append(obj.materials, st2.material)
                                     ELSE obj.materials,
                       textures |-> st2.textures,
                       ok |-> st2.ok],
                      newmtl, k + 1)

\* A lookup that answers the number of materials for an unknown name.
PositionOrLen(mats, mtl_name) ==
    LET found == { k \in 1 .. Len(mats) : mats[k].name = mtl_name }
    IN  IF found = {} THEN Len(mats)
        ELSE (CHOOSE k \in found : \A m \in found : k <= m) - 1

\* obj.materials.iter().position(|mtl| mtl.name == mtl_name).unwrap_or(0)
PositionOr0(mats, mtl_name) ==
    LET found == { k \in 1 .. Len(mats) : mats[k].name = mtl_name }
    IN  IF found = {} THEN 0
        ELSE (CHOOSE k \in found : \A m \in found : k <= m) - 1

\* Face k of the file: the scenario triangle in the plane z = -4 (k - 1),
\* the even faces with their vertices listed the other way round.
Face(k) ==
    LET shape == Moved(Shapes[1], 3, 0 - (4 * (k - 1)))
    IN  IF k % 2 = 1 THEN shape ELSE <<shape[1], shape[3], shape[2]>>

\* The normal OBJ::load computes for a face of a file without vn lines.
FaceNormal(vertices) ==
    normalized(cross(VSub(vertices[2], vertices[1]),
                     VSub(vertices[3], vertices[1])))

\* OBJ::load and Scene::from up to the call of BVH::build.
OBJ_load(f) ==
    LET obj == IF f.mtllib.line /\ f.mtllib.exists
               THEN load_mtl([materials |-> <<>>, textures |-> <<>>, ok |-> TRUE],
                             f.mtllib.newmtl, 1)
               ELSE [materials |-> <<DefaultMaterial>>, textures |-> <<>>,
                     ok |-> TRUE]
        active_material_id == IF f.usemtl = "" THEN 0
                              ELSE PositionOr0(obj.materials, f.usemtl)
    IN  [tris |-> [k \in 1 .. f.faces |->
                      Shaded(Face(k), active_material_id,
                             <<FaceNormal(Face(k)), FaceNormal(Face(k)),
                               FaceNormal(Face(k))>>,
                             <<f.vt, f.vt, f.vt>>)],
         materials |-> obj.materials,
         textures |-> obj.textures,
         ok |-> obj.ok]

\* A newmtl block, and one with the line "Ke 1 1 1".
Block(name, kd, ke) ==
    [name |-> name, map_Kd |-> kd, map_Ke |-> ke, Ke |-> NoKe]

Lamp(name) == [Block(name, NoLine, NoLine) EXCEPT !.Ke = White]

\* The material files of the model; a blank line ends each newmtl block.
MtlPool ==
    { <<>>,
      << Block("m1", NoLine, NoLine) >>,
      << Block("m1", MissingFile, PngFile) >>,
      << Block("m1", Bmp(2, 1, 6), NoLine) >>,
      << Block("m1", NoLine, Bmp(1, 1, 3)) >>,
      << Block("m1", Bmp(1, 1, 0), NoLine) >>,
      << Block("m1", Bmp(1, 1, 4), NoLine) >>,
      << Lamp("m1") >>,
      << Block("m1", NoLine, NoLine), Block("m2", Bmp(2, 1, 6), Bmp(2, 1, 6)) >> }

MtlLibs ==
    { [line |-> FALSE, exists |-> FALSE, newmtl |-> <<>>],
      [line |-> TRUE, exists |-> FALSE, newmtl |-> <<>>] }
    \cup { [line |-> TRUE, exists |-> TRUE, newmtl |-> m] : m \in MtlPool }

\* The texture coordinates of the vt line the faces use: a point past the
\* last texel, a point before the first, and the origin, which is also what
\* Scene::from takes for a file without vt lines.
UVs == { <<0, 0>>, <<1, 1>>, <<-1, 0>> }

ObjFiles ==
    { [mtllib |-> m, usemtl |-> u, vt |-> t, faces |-> n] :
          m \in MtlLibs, u \in {"", "m1", "m2", "zz"}, t \in UVs,
          n \in 1 .. MaxFaces }

(***************************************************************************)
(* i32 arithmetic of Texture::color_at.  An overflow is a panic with       *)
(* overflow checks and a wrap without.                                     *)
(***************************************************************************)
I32_MAX == 2147483647
I32_MIN == (0 - I32_MAX) - 1

\* f32 as i32: truncation, saturating at the limits, NaN to 0.
ToI32(x) ==
    IF IsNaN(x) THEN 0
    ELSE IF x >= F32_MAX THEN I32_MAX
    ELSE IF x <= 0 - F32_MAX THEN I32_MIN
    ELSE x

AddOverflows(a, b) ==
    \/ b > 0 /\ a > I32_MAX - b
    \/ b < 0 /\ a < I32_MIN - b

\* a + b modulo 2^32, as an i32.
WrappingAdd(a, b) ==
    IF b > 0 /\ a > I32_MAX - b THEN ((a + I32_MIN) + b) + I32_MIN
    ELSE IF b < 0 /\ a < I32_MIN - b THEN ((a - I32_MIN) + b) - I32_MIN
    ELSE a + b

\* a * w is outside the i32 range, for a width w >= 0.
MulOverflows(a, w) ==
    LET floor == I32_MIN \div w
        lowest == IF I32_MIN % w = 0 THEN floor ELSE floor + 1
    IN  w > 0 /\ (a > I32_MAX \div w \/ a < lowest)

\* a * w modulo 2^32 for a width w >= 0.
RECURSIVE WrappingMul(_, _)
WrappingMul(a, w) ==
    IF w = 0 THEN 0 ELSE WrappingAdd(WrappingMul(a, w - 1), a)

\* The index Texture::color_at starts its wrap loops with.
ColorAtIndex(texture, uv) ==
    LET ti == ToI32(FMul(uv[1], texture.width))
        tj == ToI32(FMul(uv[2], texture.height))
        row == WrappingMul(tj, texture.width)
    IN  [index |-> WrappingAdd(ti, row),
         overflow |-> MulOverflows(tj, texture.width) \/ AddOverflows(ti, row)]

(***************************************************************************)
(* Scene::load, followed by the build of the BVH.                          *)
(***************************************************************************)
InitLoad(f) ==
    /\ file = f
    /\ input = <<>>
    /\ tris = <<>>
    /\ nodes = <<>>
    /\ bvh = <<>>
    /\ stack = <<>>
    /\ split = NoSplit
    /\ i = 0
    /\ j = 0
    /\ pc = "load"
    /\ run = 1
    /\ first = NoFirst
    /\ materials = <<>>
    /\ textures = <<>>
    /\ tpc = "idle"
    /\ max_bounces = 0
    /\ debug_bvh = FALSE
    /\ curr_bounces = 0
    /\ descents = 0
    /\ tstack = <<>>
    /\ hit_info = HitInfoDefault
    /\ sample = NoSample
    /\ light = NoLight
    /\ walk = NoWalk

InitTrace ==
    /\ \E f \in ObjFiles : InitLoad(f)
    /\ AppIdle
    /\ DiskIdle
    /\ RenderIdle

traceLocals == <<tpc, max_bounces, debug_bvh, curr_bounces, descents, tstack,
                 hit_info, sample, light, walk>>

LoadScene ==
    /\ pc = "load"
    /\ LET obj == OBJ_load(file)
       IN  IF ~obj.ok
           THEN /\ pc' = "load_panic"
                /\ UNCHANGED <<input, tris, materials, textures>>
           ELSE /\ input' = obj.tris
                /\ tris' = obj.tris
                /\ materials' = obj.materials
                /\ textures' = obj.textures
                /\ pc' = "build"
    /\ UNCHANGED <<nodes, bvh, stack, split, i, j, run, first, file, traceLocals>>

(***************************************************************************)
(* Ray::trace on the loaded scene.  Vertex coordinates are whole numbers;  *)
(* the origin of a ray, the points on it and the distances along it are in *)
(* ten-thousandths, so that RAY_HIT_OFFSET, 0.0001, is 1.  A ray runs      *)
(* along an axis.  The outcome of the Fresnel draw depends on rng_state:   *)
(* it is either of the two.                                                *)
(***************************************************************************)
Unit == 10000
RAY_HIT_OFFSET == 1

Ray_new(origin, direction) == [origin |-> origin, direction |-> direction]

\* The rays Ray::trace is called with: through the scenario triangle at
\* (0.25, 0.25), through the middle of its long edge and past it at
\* (0.75, 0.75), from z = 8 or z = -8; one from between the first two
\* faces; one along x between their planes and one along x in the plane of
\* the first; and one along y at x = 0.25, z = 0.75.
Rays ==
    { Ray_new(<<2500, 2500, 8 * Unit>>, <<0, 0, -1>>),
      Ray_new(<<2500, 2500, 8 * Unit>>, <<0, 0, 1>>),
      Ray_new(<<2500, 2500, 0 - (8 * Unit)>>, <<0, 0, 1>>),
      Ray_new(<<5000, 5000, 8 * Unit>>, <<0, 0, -1>>),
      Ray_new(<<5000, 5000, 0 - (8 * Unit)>>, <<0, 0, 1>>),
      Ray_new(<<7500, 7500, 8 * Unit>>, <<0, 0, -1>>),
      Ray_new(<<2500, 2500, 0 - (2 * Unit)>>, <<0, 0, -1>>),
      Ray_new(<<0 - (8 * Unit), 2500, 0 - (2 * Unit)>>, <<1, 0, 0>>),
      Ray_new(<<0 - (8 * Unit), 2500, 0>>, <<1, 0, 0>>),
      Ray_new(<<2500, 0 - (8 * Unit), 7500>>, <<0, 1, 0>>) }

TracePanic ==
    /\ tpc' = "panic"
    /\ UNCHANGED <<max_bounces, debug_bvh, curr_bounces, descents, tstack,
                   hit_info, sample, light, walk>>

\* The call Ray::trace(ray, max_bounces, scene, rng_state, debug_bvh).
TraceBegin ==
    /\ pc = "done"
    /\ tpc = "idle"
    /\ \E mb \in 0 .. MaxBounces, dbg \in BOOLEAN :
           /\ max_bounces' = mb
           /\ debug_bvh' = dbg
    /\ curr_bounces' = 0
    /\ descents' = 0
    /\ \E r \in Rays :
           light' = [NoLight EXCEPT !.origin = r.origin,
                                    !.direction = r.direction,
                                    !.prev_hit_point = r.origin]
    /\ tpc' = "loop"
    /\ UNCHANGED <<tstack, hit_info, sample, walk>>

\* The value after the loop: incoming_light, over curr_bounces unless that
\* is 0.
Returned(incoming_light, bounces) ==
    [light |-> incoming_light, over |-> IF bounces = 0 THEN 1 ELSE bounces]

\* The loop test and the entry into the BVH at node 0.
TraceLoop ==
    /\ tpc = "loop"
    /\ IF curr_bounces < max_bounces
       THEN /\ hit_info' = HitInfoDefault
            /\ descents' = descents + 1
            /\ tstack' = <<0>>
            /\ walk' = [NoWalk EXCEPT !.kept = walk.kept]
            /\ tpc' = IF debug_bvh THEN "debug" ELSE "traverse"
            /\ UNCHANGED <<max_bounces, debug_bvh, curr_bounces, sample, light>>
       ELSE /\ tpc' = "returned"
            /\ light' = [light EXCEPT
                             !.result = Returned(light.incoming_light, curr_bounces)]
            /\ UNCHANGED <<max_bounces, debug_bvh, curr_bounces, descents,
                           tstack, hit_info, sample, walk>>

\* The ray of the running call.
ray == Ray_new(light.origin, light.direction)

\* An f32 as <<value, sign bit>>, which tells -0.0 from 0.0; a * b, a + b
\* and a - b on exact values.  A sum of zeros is -0.0 only when both are,
\* and a sum that cancels is 0.0.
Signed(x) == <<x, x < 0>>

SMul(a, b) == <<a[1] * b[1], a[2] # b[2]>>

SAdd(a, b) ==
    <<a[1] + b[1],
      IF a[1] + b[1] # 0 THEN a[1] + b[1] < 0 ELSE a[1] = 0 /\ a[2] /\ b[2]>>

SSub(a, b) == SAdd(a, <<0 - b[1], ~b[2]>>)

\* 1.0 / det where det = dot(edge_1, cross(direction, edge_2)) is 0.0 or
\* -0.0: inf or -inf.  The zero components of the operands are 0.0.
InvZeroDet(direction, edge_1, edge_2) ==
    LET a == [c \in 1 .. 3 |-> Signed(direction[c])]
        b == [c \in 1 .. 3 |-> Signed(edge_2[c])]
        e == [c \in 1 .. 3 |-> Signed(edge_1[c])]
        ray_cross_e2 == << SSub(SMul(a[2], b[3]), SMul(a[3], b[2])),
                           SSub(SMul(a[3], b[1]), SMul(a[1], b[3])),
                           SSub(SMul(a[1], b[2]), SMul(a[2], b[1])) >>
        det == SAdd(SAdd(SMul(e[1], ray_cross_e2[1]), SMul(e[2], ray_cross_e2[2])),
                    SMul(e[3], ray_cross_e2[3]))
    IN  IF det[2] THEN NegInf ELSE PosInf

\* f32 0.0001 is Mantissa * 2^-37.
Mantissa == 13743895

\* From this distance on f32 is spaced wider than 2 * RAY_HIT_OFFSET.
Coarse == 2048

RECURSIVE Pow2(_)
Pow2(n) == IF n = 0 THEN 1 ELSE 2 * Pow2(n - 1)

\* The f32 exponent of x / Unit, for x from Unit / 2 on.
RECURSIVE Exponent(_)
Exponent(x) ==
    IF x < Unit THEN -1 ELSE IF x < 2 * Unit THEN 0
    ELSE 1 + Exponent(x \div 2)

\* The f32 at x, a whole coordinate moved by RAY_HIT_OFFSET, lies this far
\* from the whole coordinate, in units of 2^-37: the offset rounded to the
\* spacing of f32 at x.
RoundedOffset(x) ==
    LET spacing == Pow2(Exponent(Abs(x)) + 14)
    IN  ((Mantissa + (spacing \div 2)) \div spacing) * spacing

\* The origin point + new_dir * RAY_HIT_OFFSET of a bounce at a whole
\* coordinate, which x is after the step, lies less than RAY_HIT_OFFSET
\* from the point: the sum is rounded to the spacing of f32 at x, which
\* rounds the offset up or down; at coordinate 0 it is exact.
OffsetFallsShort(x) ==
    /\ Abs(x) > RAY_HIT_OFFSET
    /\ RoundedOffset(x) < Mantissa

\* The same origin lies more than RAY_HIT_OFFSET from the point.
OffsetRunsLong(x) ==
    /\ Abs(x) > RAY_HIT_OFFSET
    /\ RoundedOffset(x) > Mantissa

\* From this step on the weights of a hit are exact in f32.
Sixteenth == 625

\* x_0 * (1.0 - u - v) + x_1 * u + x_2 * v on one component, in f32, for
\* whole x_0, x_1 and x_2 and u and v in ten-thousandths; the result is in
\* ten-thousandths.  It is exact where a weight is infinite or NaN, and
\* where both weights are whole sixteenths up to 8.
Blend(x_0, x_1, x_2, u, v) ==
    CASE /\ Abs(x_0) <= Coarse /\ Abs(x_1) <= Coarse /\ Abs(x_2) <= Coarse
         /\ \/ IsNaN(u) \/ IsInf(u) \/ IsNaN(v) \/ IsInf(v)
            \/ /\ u % Sixteenth = 0 /\ Abs(u) <= 8 * Unit
               /\ v % Sixteenth = 0 /\ Abs(v) <= 8 * Unit ->
        FAdd(FAdd(FMul(x_0, FSub(FSub(Unit, u), v)), FMul(x_1, u)), FMul(x_2, v))

RECURSIVE IsPow2(_)
IsPow2(n) == n = 1 \/ (n > 1 /\ n % 2 = 0 /\ IsPow2(n \div 2))

\* The coordinates of the origin that are no whole sixteenths, and so no
\* f32: the f32 of the origin is the nearest one.
Stepped(r) == { c \in Axes : r.origin[c] % Sixteenth # 0 }

\* Coordinate c of the origin is a whole number moved by RAY_HIT_OFFSET,
\* the ray runs along axis c and the triangle lies across it, with edges
\* of 0, 1 and -1: the rounding of the origin goes into t alone.
AcrossStep(r, tri, c) ==
    LET edge_1 == VSub(tri.vertices[2], tri.vertices[1])
        edge_2 == VSub(tri.vertices[3], tri.vertices[1])
    IN  /\ r.origin[c] % Unit \in {RAY_HIT_OFFSET, Unit - RAY_HIT_OFFSET}
        /\ Abs(r.origin[c]) < Coarse * Unit
        /\ \A k \in Axes \ {c} : r.direction[k] = 0
        /\ edge_1[c] = 0 /\ edge_2[c] = 0
        /\ \A k \in Axes : edge_1[k] \in -1 .. 1 /\ edge_2[k] \in -1 .. 1

\* From the origin coordinate o, a whole number moved by RAY_HIT_OFFSET,
\* the f32 distance to the plane at coordinate p lands on the plane
\* exactly: o - p is exact for a plane at 0 and for o and p on one side of
\* 0 within a factor of 2, and an origin next to 0 is the offset itself.
LandsOn(o, p) ==
    \/ p = 0
    \/ /\ Sign(o) = Sign(p)
       /\ \/ Abs(o) = RAY_HIT_OFFSET
          \/ Abs(p) <= 2 * Abs(o) /\ Abs(o) <= 2 * Abs(p)

\* HitInfo of intersect_tri for det = 0: inv_det is infinite, and u, v and
\* t are infinite or NaN; u_dot, v_dot and t_dot are the dot products that
\* inv_det multiplies, exact for an origin of whole sixteenths.
HitOfZeroDet(r, tri, inv_det, u_dot, v_dot, t_dot) ==
    LET u == FMul(inv_det, u_dot)
        v == FMul(inv_det, v_dot)
        t == FMul(inv_det, t_dot)
    IN  CASE Stepped(r) = {} ->
        [has_hit |-> /\ FGt(t, RAY_HIT_OFFSET)
                     /\ ~(FLt(u, 0) \/ FGt(u, Unit))
                     /\ ~(FLt(v, 0) \/ FGt(FAdd(u, v), Unit)),
         point |-> << FAdd(r.origin[1], FMul(r.direction[1], t)),
                      FAdd(r.origin[2], FMul(r.direction[2], t)),
                      FAdd(r.origin[3], FMul(r.direction[3], t)) >>,
         normal |-> [c \in 1 .. 3 |->
                        FNeg(Blend(tri.normals[1][c], tri.normals[2][c],
                                   tri.normals[3][c], u, v))],
         distance |-> t,
         uv |-> [c \in 1 .. 2 |->
                    Blend(tri.tex_coords[1][c], tri.tex_coords[2][c],
                          tri.tex_coords[3][c], u, v)],
         material_id |-> tri.material_id,
         front_face |-> FALSE]

\* HitInfo of intersect_tri for det a power of 2 or its negative, where
\* inv_det is exact.  u, v and t are kept as their products with det.  The
\* normal and uv, which the code sums with the weights 1 - u - v, u and v,
\* are given where the weights are whole sixteenths and the sums whole
\* numbers.  For an origin of whole sixteenths t, the distance, is exact
\* and given where it is a whole number of ten-thousandths.  For an origin
\* moved by RAY_HIT_OFFSET from a whole coordinate, t and the point are
\* the f32 values to the nearest ten-thousandth, below Coarse; at a
\* distance of RAY_HIT_OFFSET the rounding of the origin decides
\* "t > 0.0001", and ahead of the origin the point is given where it is
\* exact.
HitOfDet(r, tri, det, u_dot, v_dot, t_dot) ==
    LET whole == Unit * Abs(det)
        u_det == u_dot * Sign(det)
        v_det == v_dot * Sign(det)
        t_det == t_dot * Sign(det)
        t == t_det \div Abs(det)
        front_face == det > 0
        Sum(x_0, x_1, x_2) ==
            (x_0 * (whole - u_det - v_det)) + (x_1 * u_det) + (x_2 * v_det)
        normal == [c \in 1 .. 3 |->
                      Sum(tri.normals[1][c], tri.normals[2][c],
                          tri.normals[3][c]) \div whole]
    IN  CASE /\ IsPow2(Abs(det))
             /\ t_det % Abs(det) = 0
             /\ \A c \in Stepped(r) :
                    /\ AcrossStep(r, tri, c)
                    /\ Abs(t) < Coarse * Unit
                    /\ t > 0 => LandsOn(r.origin[c], Unit * tri.vertices[1][c])
             /\ u_det % (Sixteenth * Abs(det)) = 0
             /\ v_det % (Sixteenth * Abs(det)) = 0
             /\ \A c \in 1 .. 3 :
                    Sum(tri.normals[1][c], tri.normals[2][c],
                        tri.normals[3][c]) % whole = 0
             /\ \A c \in 1 .. 2 :
                    Sum(tri.tex_coords[1][c], tri.tex_coords[2][c],
                        tri.tex_coords[3][c]) % whole = 0 ->
            [has_hit |-> /\ \/ t_det > RAY_HIT_OFFSET * Abs(det)
                            \/ /\ t_det = RAY_HIT_OFFSET * Abs(det)
                               /\ \E c \in Stepped(r) :
                                      OffsetRunsLong(r.origin[c])
                         /\ ~(u_det < 0 \/ u_det > whole)
                         /\ ~(v_det < 0 \/ u_det + v_det > whole),
             point |-> VAdd(r.origin, VScale(r.direction, t)),
             normal |-> IF front_face THEN normal ELSE reversed(normal),
             distance |-> t,
             uv |-> [c \in 1 .. 2 |->
                        Sum(tri.tex_coords[1][c], tri.tex_coords[2][c],
                            tri.tex_coords[3][c]) \div whole],
             material_id |-> tri.material_id,
             front_face |-> front_face]

\* intersect_tri: det and the three dot products that inv_det multiplies,
\* each taken once, and the HitInfo of them; inv_det for det = 0 is the
\* fifth.
intersect_tri(r, tri) ==
    LET v_1 == tri.vertices[1]
        v_2 == tri.vertices[2]
        v_3 == tri.vertices[3]
        edge_1 == VSub(v_2, v_1)
        edge_2 == VSub(v_3, v_1)
        ray_cross_e2 == cross(r.direction, edge_2)
        det == dot(edge_1, ray_cross_e2)
        s == VSub(r.origin, VScale(v_1, Unit))
        s_cross_e1 == cross(s, edge_1)
    IN  CHOOSE hit \in
            { IF k[1] = 0
              THEN HitOfZeroDet(r, tri, k[5], k[2], k[3], k[4])
              ELSE HitOfDet(r, tri, k[1], k[2], k[3], k[4]) :
                  k \in { << det,
                             dot(s, ray_cross_e2),
                             dot(r.direction, s_cross_e1),
                             dot(edge_2, s_cross_e1),
                             InvZeroDet(r.direction, edge_1, edge_2) >> } } :
            TRUE

\* f32 / f32; a zero divisor is 0.0.  A quotient of finite values is given
\* where it is whole.
FDiv(a, b) ==
    IF IsNaN(a) \/ IsNaN(b) THEN NaN
    ELSE IF IsInf(a) THEN (IF IsInf(b) THEN NaN
                           ELSE IF b < 0 THEN FNeg(a) ELSE a)
    ELSE IF IsInf(b) THEN 0
    ELSE IF b = 0 THEN (IF a = 0 THEN NaN ELSE SignedInf(a))
    ELSE CASE b = 1 -> a
           [] b = -1 -> FNeg(a)
           [] Abs(b) > 1 /\ ~IsBig(a) /\ a % Abs(b) = 0 ->
                  (a \div Abs(b)) * Sign(b)

\* (a - b) / d by components, Vec3f's - and /.
Slab(a, b, d) ==
    << FDiv(FSub(Unit * a[1], b[1]), d[1]), FDiv(FSub(Unit * a[2], b[2]), d[2]),
       FDiv(FSub(Unit * a[3], b[3]), d[3]) >>

\* intersect_node.  A box the ray has just left by a bounce on its far
\* side has t_far = 0 but for the rounding of the new origin.  A box
\* without depth along the ray is told from no box up to Coarse.
intersect_node(r, node) ==
    \E t_min \in {Slab(node.bounds_min, r.origin, r.direction)},
       t_max \in {Slab(node.bounds_max, r.origin, r.direction)} :
        \E t_1 \in {<< FSub(FMin(t_min[1], t_max[1]), RAY_HIT_OFFSET),
                       FSub(FMin(t_min[2], t_max[2]), RAY_HIT_OFFSET),
                       FSub(FMin(t_min[3], t_max[3]), RAY_HIT_OFFSET) >>},
           t_2 \in {<< FAdd(FMax(t_min[1], t_max[1]), RAY_HIT_OFFSET),
                       FAdd(FMax(t_min[2], t_max[2]), RAY_HIT_OFFSET),
                       FAdd(FMax(t_min[3], t_max[3]), RAY_HIT_OFFSET) >>},
           along \in { a \in Axes : r.direction[a] # 0 } :
            \E t_near \in {FMax(FMax(t_1[1], t_1[2]), t_1[3])},
               t_far \in {FMin(FMin(t_2[1], t_2[2]), t_2[3])} :
                CASE \/ t_min[along] # t_max[along]
                     \/ Abs(t_min[along]) < Coarse * Unit ->
                    /\ FLt(t_near, t_far)
                    /\ \/ FGt(t_far, 0)
                       \/ t_far = 0 /\ OffsetFallsShort(r.origin[along])

\* A leaf loop that takes a triangle at an equal distance too.
RECURSIVE LeafLoopLastOfEqual(_, _, _)
LeafLoopLastOfEqual(best, temps, k) ==
    IF k > Len(temps) THEN best
    ELSE LeafLoopLastOfEqual(IF /\ temps[k].has_hit
                                /\ ~FLt(best.distance, temps[k].distance)
                             THEN temps[k] ELSE best,
                             temps, k + 1)

\* "for i in 0..node.num_tris" of traverse_bvh from its iteration k on,
\* temps being what intersect_tri returns for the triangles of the leaf.
RECURSIVE LeafLoop(_, _, _)
LeafLoop(best, temps, k) ==
    IF k > Len(temps) THEN best
    ELSE LeafLoop(IF /\ temps[k].has_hit
                     /\ FLt(temps[k].distance, best.distance)
                  THEN temps[k] ELSE best,
                  temps, k + 1)

\* The visit of a node, added to the record of the descent.
Visited(index, met) ==
    Append(walk.nodes, [index |-> index, intersect_node |-> met])

\* The record of the descent after a step of traverse_bvh, where it is
\* kept.
Kept(record) == IF walk.kept THEN record ELSE walk

\* One call of traverse_bvh, up to its recursive calls.
TraverseBvh ==
    /\ tpc = "traverse"
    /\ tstack # <<>>
    /\ LET index == Head(tstack)
       IN  IF index >= Len(bvh) THEN TracePanic
           ELSE LET node == At(bvh, index)
                IN  IF ~intersect_node(ray, node)
                    THEN /\ tstack' = Tail(tstack)
                         /\ walk' = Kept([walk EXCEPT !.nodes = Visited(index, FALSE)])
                         /\ UNCHANGED <<tpc, max_bounces, debug_bvh, curr_bounces,
                                        descents, hit_info, sample, light>>
                    ELSE IF node.num_tris > 0
                    THEN IF node.first_tri_id + node.num_tris > Len(tris)
                         THEN TracePanic
                         ELSE \E temps \in {[k \in 1 .. node.num_tris |->
                                               intersect_tri(ray,
                                                   At(tris, node.first_tri_id + k - 1))]} :
                                  /\ hit_info' = LeafLoop(hit_info, temps, 1)
                                  /\ walk' = Kept([walk EXCEPT
                                         !.nodes = Visited(index, TRUE),
                                         !.tris = @ \o
                                             [k \in 1 .. node.num_tris |->
                                                 [tri |-> node.first_tri_id + k - 1,
                                                  temp_hit_info |-> temps[k]]]])
                                  /\ tstack' = Tail(tstack)
                                  /\ UNCHANGED <<tpc, max_bounces, debug_bvh,
                                                 curr_bounces, descents, sample,
                                                 light>>
                    ELSE /\ tstack' = <<node.children_id, node.children_id + 1>>
                                          \o Tail(tstack)
                         /\ walk' = Kept([walk EXCEPT !.nodes = Visited(index, TRUE)])
                         /\ UNCHANGED <<tpc, max_bounces, debug_bvh, curr_bounces,
                                        descents, hit_info, sample, light>>

\* A debug view that leaves the interior nodes out.
DebugColorLeavesOnly(node) ==
    IF node.num_tris > 4 THEN <<50, 0, 0>>
    ELSE IF node.num_tris > 0 THEN <<0, 50, 0>>
    ELSE Black

\* What debug_bvh adds to debug_color at a node the ray meets.
DebugColor(node) ==
    IF node.num_tris > 4 THEN <<50, 0, 0>>
    ELSE IF node.num_tris > 0 THEN <<0, 50, 0>>
    ELSE <<0, 0, 5>>

\* One call of debug_bvh, up to its recursive calls; debug_color is the
\* incoming_light of Ray::trace.
DebugBvh ==
    /\ tpc = "debug"
    /\ tstack # <<>>
    /\ LET index == Head(tstack)
       IN  IF index >= Len(bvh) THEN TracePanic
           ELSE LET node == At(bvh, index)
                    hit == intersect_node(ray, node)
                IN  /\ tstack' = IF hit /\ node.num_tris = 0
                                 THEN <<node.children_id, node.children_id + 1>>
                                          \o Tail(tstack)
                                 ELSE Tail(tstack)
                    /\ light' = IF hit
                                THEN [light EXCEPT !.incoming_light =
                                          VAdd(@, DebugColor(node))]
                                ELSE light
                    /\ walk' = [walk EXCEPT !.nodes = Visited(index, hit)]
                    /\ UNCHANGED <<tpc, max_bounces, debug_bvh, curr_bounces,
                                   descents, hit_info, sample>>

\* Debug mode: "return incoming_light" after the one descent.
DebugReturn ==
    /\ tpc = "debug"
    /\ tstack = <<>>
    /\ tpc' = "returned"
    /\ light' = [light EXCEPT !.result = [light |-> light.incoming_light, over |-> 1]]
    /\ UNCHANGED <<max_bounces, debug_bvh, curr_bounces, descents, tstack,
                   hit_info, sample, walk>>

sky_color == White
sky_strength == White

\* The sky branch of Ray::trace.
Sky(l) ==
    LET ray_color == VMul(l.ray_color, sky_color)
        emitted_light == VAdd(l.emitted_light, sky_strength)
    IN  [l EXCEPT !.ray_color = ray_color,
                  !.emitted_light = emitted_light,
                  !.incoming_light = VAdd(@, VMul(emitted_light, ray_color))]

\* After traverse_bvh: the hit branch, or the sky branch, its break and the
\* return.
TraverseEnd ==
    /\ tpc = "traverse"
    /\ tstack = <<>>
    /\ IF hit_info.has_hit
       THEN /\ tpc' = "shade"
            /\ UNCHANGED light
       ELSE /\ tpc' = "returned"
            /\ light' = [Sky(light) EXCEPT
                             !.result = Returned(Sky(light).incoming_light,
                                                 curr_bounces)]
    /\ walk' = [NoWalk EXCEPT !.kept = walk.kept]
    /\ UNCHANGED <<max_bounces, debug_bvh, curr_bounces, descents, tstack,
                   hit_info, sample>>

\* The call color_at on scene.textures[tex_id], made from place `after` with
\* the locals l.
ColorAtCall(tex_id, after, l) ==
    IF tex_id >= Len(textures) THEN TracePanic
    ELSE /\ sample' = [tex |-> tex_id, index |-> 0, after |-> after, iter |-> 0]
         /\ tpc' = "color_at"
         /\ light' = l
         /\ UNCHANGED <<max_bounces, debug_bvh, curr_bounces, descents, tstack,
                        hit_info, walk>>

\* 1.0 / ior of a fraction.
Inverse(ior) == <<ior[2], ior[1]>>

\* A hit branch that starts the distance again on a front-face hit.
MediumFrontResets(l, hit, hit_material) ==
    IF hit.front_face
    THEN [l EXCEPT !.ior = Inverse(hit_material.ior),
                   !.prev_hit_point = hit.point,
                   !.transmitted_distance = 0]
    ELSE [l EXCEPT !.ior = hit_material.ior,
                   !.transmitted_distance = distance(hit.point, l.prev_hit_point)]

\* "if hit_info.front_face { ... } else { ... }": the effective ior, and
\* prev_hit_point or transmitted_distance.
Medium(l, hit, hit_material) ==
    IF hit.front_face
    THEN [l EXCEPT !.ior = Inverse(hit_material.ior),
                   !.prev_hit_point = hit.point]
    ELSE [l EXCEPT !.ior = hit_material.ior,
                   !.transmitted_distance = distance(hit.point, l.prev_hit_point)]

\* The hit branch from the material lookup to the base colour.
Shade ==
    /\ tpc = "shade"
    /\ IF hit_info.material_id >= Len(materials) THEN TracePanic
       ELSE LET hit_material == At(materials, hit_info.material_id)
                l == Medium(light, hit_info, hit_material)
            IN  \E schlick \in BOOLEAN :
                    IF schlick
                    THEN /\ light' = [l EXCEPT !.new_dir = reflect(l.direction,
                                                                   hit_info.normal),
                                               !.ray_color =
                                          VMul(@, hit_material.specular_tint)]
                         /\ tpc' = "emission"
                         /\ UNCHANGED <<max_bounces, debug_bvh, curr_bounces,
                                        descents, tstack, hit_info, sample, walk>>
                    ELSE IF hit_material.base_color_tex_id # -1
                    THEN ColorAtCall(hit_material.base_color_tex_id, "emission",
                                     [l EXCEPT !.new_dir = refract(l.direction,
                                                                hit_info.normal, l.ior)])
                    ELSE /\ light' = [l EXCEPT !.new_dir = refract(l.direction,
                                                                   hit_info.normal, l.ior),
                                               !.ray_color =
                                          VMul(@, hit_material.base_color)]
                         /\ tpc' = "emission"
                         /\ UNCHANGED <<max_bounces, debug_bvh, curr_bounces,
                                        descents, tstack, hit_info, sample, walk>>

\* The emitted light of the hit.
Emission ==
    /\ tpc = "emission"
    /\ LET hit_material == At(materials, hit_info.material_id)
       IN  IF hit_material.emission_tex_id # -1
           THEN ColorAtCall(hit_material.emission_tex_id, "bounce", light)
           ELSE /\ light' = [light EXCEPT !.emitted_light =
                                 VAdd(@, hit_material.emission)]
                /\ tpc' = "bounce"
                /\ UNCHANGED <<max_bounces, debug_bvh, curr_bounces, descents,
                               tstack, hit_info, sample, walk>>

\* exp(-n / 10) in thousandths, n = 0, 1, ...; past the table it is 0.
ExpTenths ==
    << 1000, 905, 819, 741, 670, 607, 549, 497, 449, 407, 368, 333, 301, 273,
       247, 223, 202, 183, 165, 150, 135, 122, 111, 100, 91, 82, 74, 67, 61,
       55, 50, 45, 41, 37, 33, 30, 27, 25, 22, 20, 18, 17, 15, 14, 12, 11, 10,
       9, 8, 7, 7, 6, 6, 5, 5, 4, 4, 3, 3, 3, 2, 2, 2, 2, 2, 2, 1, 1, 1, 1, 1,
       1, 1, 1, 1, 1, 1 >>

Exp(n) == IF n < Len(ExpTenths) THEN ExpTenths[n + 1] ELSE 0

\* (exp(-0.1 d), exp(-3 d), exp(-5 d)) for a whole distance d.
Absorption(transmitted_distance) ==
    LET d == transmitted_distance \div Unit
    IN  CASE transmitted_distance % Unit = 0 ->
                 << Exp(d), Exp(30 * d), Exp(50 * d) >>

\* The end of the hit branch: the absorption, the light of this bounce, the
\* new ray and curr_bounces += 1; the locals ior and new_dir end with their
\* block.
Bounce ==
    /\ tpc = "bounce"
    /\ LET ray_color == VMul(light.ray_color,
                             Absorption(light.transmitted_distance))
           new_ray == Ray_new(VAdd(hit_info.point,
                                   VScale(light.new_dir, RAY_HIT_OFFSET)),
                              light.new_dir)
       IN  light' = [light EXCEPT
                         !.ray_color = ray_color,
                         !.incoming_light = VAdd(@, VMul(light.emitted_light,
                                                         ray_color)),
                         !.origin = new_ray.origin,
                         !.direction = new_ray.direction,
                         !.ior = NoLight.ior,
                         !.new_dir = NoLight.new_dir]
    /\ curr_bounces' = curr_bounces + 1
    /\ tpc' = "loop"
    /\ UNCHANGED <<max_bounces, debug_bvh, descents, tstack, hit_info, sample,
                   walk>>

\* Texture::color_at: i, j and index.
ColorAtEnter ==
    /\ tpc = "color_at"
    /\ LET start == ColorAtIndex(At(textures, sample.tex), hit_info.uv)
           Go == /\ sample' = [sample EXCEPT !.index = start.index]
                 /\ tpc' = "wrap_down"
                 /\ UNCHANGED <<max_bounces, debug_bvh, curr_bounces, descents,
                                tstack, hit_info, light, walk>>
       IN  IF start.overflow THEN TracePanic \/ Go ELSE Go

\* An iteration (or run of iterations) of a wrap loop that leaves the loop
\* running, index becoming next.
WrapTo(next) ==
    /\ sample' = [sample EXCEPT !.index = next, !.iter = 1 - @]
    /\ UNCHANGED <<tpc, max_bounces, debug_bvh, curr_bounces, descents, tstack,
                   hit_info, light, walk>>

\* The exit of a wrap loop.
WrapExit(to) ==
    /\ tpc' = to
    /\ UNCHANGED <<max_bounces, debug_bvh, curr_bounces, descents, tstack,
                   hit_info, sample, light, walk>>

\* "while index > len - 1 { index -= len - 1 }".  With len >= 2 a step is
\* the run of iterations that brings index to len - 1 or below.  With
\* len = 1 an iteration subtracts 0.  With len = 0 an iteration adds 1: a
\* step is the run of iterations up to i32::MAX, and the next one overflows.
WrapDown ==
    /\ tpc = "wrap_down"
    /\ LET d == Len(At(textures, sample.tex).pixel_data) - 1
           index == sample.index
       IN  IF ~(index > d) THEN WrapExit("wrap_up")
           ELSE IF d > 0 THEN WrapTo(index - d * ((index - 1) \div d))
           ELSE IF d = 0 THEN WrapTo(index)
           ELSE IF index < I32_MAX THEN WrapTo(I32_MAX)
           ELSE TracePanic \/ WrapTo(I32_MIN)

\* "while index < 0 { index += len - 1 }", with steps as in WrapDown.
WrapUp ==
    /\ tpc = "wrap_up"
    /\ LET d == Len(At(textures, sample.tex).pixel_data) - 1
           index == sample.index
       IN  IF ~(index < 0) THEN WrapExit("texel")
           ELSE IF d > 0 THEN WrapTo(index + d * (((0 - (index + 1)) \div d) + 1))
           ELSE IF d = 0 THEN WrapTo(index)
           ELSE IF index > I32_MIN THEN WrapTo(I32_MIN)
           ELSE TracePanic \/ WrapTo(I32_MAX)

\* "return self.pixel_data[index as usize]", and what the caller in
\* Ray::trace does with the colour: ray_color *= it at the base colour,
\* emitted_light += it at the emission.
Texel ==
    /\ tpc = "texel"
    /\ LET pixel_data == At(textures, sample.tex).pixel_data
       IN  IF sample.index >= Len(pixel_data)
           THEN TracePanic
           ELSE LET color == FromBytes(TexelBytes(At(pixel_data, sample.index)))
                IN  /\ tpc' = sample.after
                    /\ light' =
                           IF sample.after = "emission"
                           THEN [light EXCEPT !.ray_color = VMul(@, color)]
                           ELSE IF sample.after = "bounce"
                           THEN [light EXCEPT !.emitted_light = VAdd(@, color)]
                           ELSE light
                    /\ UNCHANGED <<max_bounces, debug_bvh, curr_bounces, descents,
                                   tstack, hit_info, sample, walk>>

sceneVars == <<file, materials, textures>>

TraceStep ==
    \/ TraceBegin
    \/ TraceLoop
    \/ TraverseBvh
    \/ DebugBvh
    \/ DebugReturn
    \/ TraverseEnd
    \/ Shade
    \/ Emission
    \/ Bounce
    \/ ColorAtEnter
    \/ WrapDown
    \/ WrapUp
    \/ Texel

NextTrace ==
    \/ LoadScene /\ UNCHANGED <<appVars, renderVars, diskVars>>
    \/ BuildRoot /\ UNCHANGED <<traceVars, appVars, renderVars, diskVars>>
    \/ SplitNode /\ UNCHANGED <<traceVars, appVars, renderVars, diskVars>>
    \/ PartitionStep /\ UNCHANGED <<traceVars, appVars, renderVars, diskVars>>
    \/ PartitionEnd /\ UNCHANGED <<traceVars, appVars, renderVars, diskVars>>
    \/ BuildDone /\ UNCHANGED <<traceVars, appVars, renderVars, diskVars>>
    \/ TraceBegin /\ UNCHANGED <<bvhVars, sceneVars, appVars, renderVars, diskVars>>
    \/ TraceLoop /\ UNCHANGED <<bvhVars, sceneVars, appVars, renderVars, diskVars>>
    \/ TraverseBvh /\ UNCHANGED <<bvhVars, sceneVars, appVars, renderVars, diskVars>>
    \/ DebugBvh /\ UNCHANGED <<bvhVars, sceneVars, appVars, renderVars, diskVars>>
    \/ DebugReturn /\ UNCHANGED <<bvhVars, sceneVars, appVars, renderVars, diskVars>>
    \/ TraverseEnd /\ UNCHANGED <<bvhVars, sceneVars, appVars, renderVars, diskVars>>
    \/ Shade /\ UNCHANGED <<bvhVars, sceneVars, appVars, renderVars, diskVars>>
    \/ Emission /\ UNCHANGED <<bvhVars, sceneVars, appVars, renderVars, diskVars>>
    \/ Bounce /\ UNCHANGED <<bvhVars, sceneVars, appVars, renderVars, diskVars>>
    \/ ColorAtEnter /\ UNCHANGED <<bvhVars, sceneVars, appVars, renderVars, diskVars>>
    \/ WrapDown /\ UNCHANGED <<bvhVars, sceneVars, appVars, renderVars, diskVars>>
    \/ WrapUp /\ UNCHANGED <<bvhVars, sceneVars, appVars, renderVars, diskVars>>
    \/ Texel /\ UNCHANGED <<bvhVars, sceneVars, appVars, renderVars, diskVars>>

SpecTrace == InitTrace /\ [][NextTrace]_vars

\* The thread that called Ray::trace keeps running until the call returns.
FairTrace ==
    SpecTrace /\ WF_vars(TraceStep /\ UNCHANGED <<bvhVars, sceneVars, appVars, renderVars, diskVars>>)


(***************************************************************************)
(* The text Image::write_to_path writes, and the file it leaves.           *)
(***************************************************************************)
\* The character of a decimal digit.
Digit(d) == <<"0", "1", "2", "3", "4", "5", "6", "7", "8", "9">>[d + 1]

\* "{}" of an unsigned integer: its decimal digits.
RECURSIVE Display(_)
Display(n) == IF n < 10 THEN <<Digit(n)>> ELSE Display(n \div 10) \o <<Digit(n % 10)>>

\* format_args!("P3\n{} {}\n255\n", width, height)
Header(img) ==
    <<"P", "3", "\n">> \o Display(img.width) \o <<" ">> \o Display(img.height)
        \o <<"\n", "2", "5", "5", "\n">>

\* The buffer after the closure ran for index, index + 3, ...: "{} {} {} "
\* of three bytes, and a newline when index % width = 0 and index # 0.
RECURSIVE Buffer(_, _)
Buffer(img, index) ==
    IF index >= Len(img.bytes) THEN <<>>
    ELSE Display(img.bytes[index + 1]) \o <<" ">>
             \o Display(img.bytes[index + 2]) \o <<" ">>
             \o Display(img.bytes[index + 3]) \o <<" ">>
             \o (IF index % img.width = 0 /\ index # 0 THEN <<"\n">> ELSE <<>>)
             \o Buffer(img, index + 3)

\* A file opened with write(true).create(true), after data was written from
\* its start: the bytes behind the written ones stay.
Write(content, data) ==
    data \o SubSeq(content, Len(data) + 1, Len(content))

(***************************************************************************)
(* The window application: the UI thread (App::run and the handlers of     *)
(* its event loop) and the render threads App::start_render spawns.  A     *)
(* mutex is taken in one step and held until the step that drops its       *)
(* guard.  A render thread is named by a number, and so is the buffer it   *)
(* stores; a new thread gets a number that names no buffer in use.  The    *)
(* buffer 0 is the initial_buffer of App::new.                             *)
(***************************************************************************)
MaxThreads == 3

\* The width and the height App::new is called with.
AppSide == 2

\* The bytes of a buffer, without the alpha channel: initial_buffer is all
\* zeros, and the render of thread t leaves the first t pixels white.
RgbBuffer(buffer) ==
    [k \in 1 .. 3 * AppSide * AppSide |-> IF k <= 3 * buffer THEN 255 ELSE 0]

ThreadIds == 1 .. MaxThreads

\* The holders of a mutex.
ByUi == [by |-> "ui", id |-> 0]
ByThread(t) == [by |-> "thread", id |-> t]

InitApp ==
    /\ InitBuild(<<>>)
    /\ TraceIdle
    /\ RenderIdle
    /\ DiskIdle
    /\ scene = "Unset"
    /\ camera_dirty = TRUE
    /\ is_rendering = FALSE
    /\ frame_buffer = 0
    /\ ui = "load"
    /\ ret = "events"
    /\ threads = [t \in ThreadIds |-> "none"]
    /\ locks = [is_rendering |-> Free, frame_buffer |-> Free]
    /\ auto_rotate = FALSE
    /\ last_ui_change = "None"
    /\ mouse_down = FALSE
    /\ ui_pointer_down = FALSE
    /\ pixels = 0
    /\ completed = 0

\* The fields of App the handlers of the pointer and of the keys write.
inputVars == <<auto_rotate, last_ui_change, mouse_down, ui_pointer_down>>

\* App::run from Scene::load to the event loop: the load succeeds or fails.
LoadResult ==
    /\ ui = "load"
    /\ \E loaded \in BOOLEAN :
           /\ scene' = IF loaded THEN "Some" ELSE "None"
           /\ ui' = IF loaded THEN "start_render" ELSE "events"
    /\ camera_dirty' = TRUE
    /\ ret' = "events"
    /\ UNCHANGED <<is_rendering, frame_buffer, threads, locks, inputVars,
                   pixels, completed>>

\* A key that moves the camera: Q and E set last_ui_change, R does not; all
\* are ignored while is_rendering.
KeyInput ==
    /\ ui = "events"
    /\ locks.is_rendering = Free
    /\ camera_dirty' = IF ~is_rendering THEN TRUE ELSE camera_dirty
    /\ \E key \in {"Q", "E", "R"} :
           last_ui_change' = IF ~is_rendering /\ key # "R" THEN "recent"
                             ELSE last_ui_change
    /\ UNCHANGED <<scene, is_rendering, frame_buffer, ui, ret, threads, locks,
                   auto_rotate, mouse_down, ui_pointer_down, pixels, completed>>

\* The key Space: auto_rotate is toggled.
KeySpace ==
    /\ ui = "events"
    /\ auto_rotate' = ~auto_rotate
    /\ UNCHANGED <<scene, camera_dirty, is_rendering, frame_buffer, ui, ret,
                   threads, locks, last_ui_change, mouse_down,
                   ui_pointer_down, pixels, completed>>

\* The key P: the lock of frame_buffer; the guard lives to the end of the
\* "if let".
KeySaveLock ==
    /\ ui = "events"
    /\ locks.frame_buffer = Free
    /\ locks' = [locks EXCEPT !.frame_buffer = ByUi]
    /\ ui' = "save"
    /\ UNCHANGED <<scene, camera_dirty, is_rendering, frame_buffer, ret,
                   threads, inputVars, pixels, completed>>

\* The key P: an Image of the buffer is made and written to output.ppm, and
\* the guard dropped.
KeySave ==
    /\ ui = "save"
    /\ image' = [width |-> AppSide, height |-> AppSide,
                 bytes |-> RgbBuffer(frame_buffer)]
    /\ output_ppm' = Write(output_ppm, Header(image') \o Buffer(image', 0))
    /\ saved' = TRUE
    /\ locks' = [locks EXCEPT !.frame_buffer = Free]
    /\ ui' = "events"
    /\ UNCHANGED <<scene, camera_dirty, is_rendering, frame_buffer, ret,
                   threads, inputVars, pixels, completed>>

\* MouseInput: a button is pressed or released, unless egui consumed the
\* event.
MouseInput ==
    /\ ui = "events"
    /\ \E egui_consumed \in BOOLEAN, pressed \in BOOLEAN :
           mouse_down' = IF egui_consumed THEN mouse_down ELSE pressed
    /\ UNCHANGED <<scene, camera_dirty, is_rendering, frame_buffer, ui, ret,
                   threads, locks, auto_rotate, last_ui_change,
                   ui_pointer_down, pixels, completed>>

\* The scroll wheel, unless egui consumed the event.
PointerInput ==
    /\ ui = "events"
    /\ \E egui_consumed \in BOOLEAN :
           IF egui_consumed
           THEN UNCHANGED <<camera_dirty, last_ui_change>>
           ELSE /\ camera_dirty' = TRUE
                /\ last_ui_change' = "recent"
    /\ UNCHANGED <<scene, is_rendering, frame_buffer, ui, ret, threads, locks,
                   auto_rotate, mouse_down, ui_pointer_down, pixels, completed>>

\* 150 ms have passed since last_ui_change; they pass between two events,
\* not inside a handler.
Elapsed ==
    /\ ui = "events"
    /\ last_ui_change = "recent"
    /\ last_ui_change' = "old"
    /\ UNCHANGED <<scene, camera_dirty, is_rendering, frame_buffer, ui, ret,
                   threads, locks, auto_rotate, mouse_down, ui_pointer_down,
                   pixels, completed>>

\* RedrawRequested, the auto-rotate test.
RedrawAutoRotate ==
    /\ ui = "events"
    /\ auto_rotate => locks.is_rendering = Free
    /\ IF auto_rotate /\ ~is_rendering
       THEN /\ camera_dirty' = TRUE
            /\ last_ui_change' = "recent"
       ELSE UNCHANGED <<camera_dirty, last_ui_change>>
    /\ ui' = "redraw"
    /\ UNCHANGED <<scene, is_rendering, frame_buffer, ret, threads, locks,
                   auto_rotate, mouse_down, ui_pointer_down, pixels, completed>>

\* "t.elapsed().as_millis() >= 150", or no last_ui_change.
should_render == last_ui_change # "recent"

\* RedrawRequested, "if self.camera_dirty && !is_rendering": the call of
\* start_render unless the pointer is down (render_while_dragging stays
\* false) or the last change is recent.
RedrawStart ==
    /\ ui = "redraw"
    /\ camera_dirty => locks.is_rendering = Free
    /\ IF camera_dirty /\ ~is_rendering /\ ~ui_pointer_down /\ should_render
       THEN /\ camera_dirty' = FALSE
            /\ last_ui_change' = "None"
            /\ ui' = "start_render"
            /\ ret' = "egui"
       ELSE /\ ui' = "egui"
            /\ UNCHANGED <<camera_dirty, last_ui_change, ret>>
    /\ UNCHANGED <<scene, is_rendering, frame_buffer, threads, locks,
                   auto_rotate, mouse_down, ui_pointer_down, pixels, completed>>

\* RedrawRequested, the egui panel: ui_pointer_down is read from the mouse
\* buttons, and a slider or a button may change the camera.
RedrawEgui ==
    /\ ui = "egui"
    /\ locks.is_rendering = Free
    /\ ui_pointer_down' = mouse_down
    /\ \E camera_changed \in BOOLEAN :
           IF camera_changed
           THEN /\ camera_dirty' = TRUE
                /\ last_ui_change' = "recent"
           ELSE UNCHANGED <<camera_dirty, last_ui_change>>
    /\ ui' = "update"
    /\ UNCHANGED <<scene, is_rendering, frame_buffer, ret, threads, locks,
                   auto_rotate, mouse_down, pixels, completed>>

\* An update that drops the guard of frame_buffer right after the copy.
UpdateLockDropsGuard ==
    /\ ui = "update"
    /\ locks.frame_buffer = Free
    /\ pixels' = frame_buffer
    /\ ui' = "update_copy"
    /\ UNCHANGED <<scene, camera_dirty, is_rendering, frame_buffer, ret,
                   threads, locks, inputVars, completed>>

\* App::update: the lock of frame_buffer and the copy into the window
\* (frame_buffer holds Some(buffer) from App::new on).
UpdateLock ==
    /\ ui = "update"
    /\ locks.frame_buffer = Free
    /\ locks' = [locks EXCEPT !.frame_buffer = ByUi]
    /\ pixels' = frame_buffer
    /\ ui' = "update_copy"
    /\ UNCHANGED <<scene, camera_dirty, is_rendering, frame_buffer, ret,
                   threads, inputVars, completed>>

\* What App::update returns after the copy: is_rendering.
UpdateResult == is_rendering

\* App::update: the read of is_rendering, and the return.
UpdateReturn ==
    /\ ui = "update_copy"
    /\ locks.is_rendering = Free
    /\ locks' = [locks EXCEPT !.frame_buffer = Free]
    /\ ui' = "events"
    /\ UNCHANGED <<scene, camera_dirty, is_rendering, frame_buffer, ret,
                   threads, inputVars, pixels, completed>>

\* start_render: "self.is_rendering.lock()".
StartRenderLock ==
    /\ ui = "start_render"
    /\ locks.is_rendering = Free
    /\ locks' = [locks EXCEPT !.is_rendering = ByUi]
    /\ ui' = "test"
    /\ UNCHANGED <<scene, camera_dirty, is_rendering, frame_buffer, ret,
                   threads, inputVars, pixels, completed>>

\* A start_render that drops the guard without setting the flag.
StartRenderTestNoSet ==
    /\ ui = "test"
    /\ locks' = [locks EXCEPT !.is_rendering = Free]
    /\ ui' = IF is_rendering THEN ret ELSE "scene"
    /\ UNCHANGED <<scene, camera_dirty, is_rendering, frame_buffer, ret,
                   threads, inputVars, pixels, completed>>

\* start_render: the test of the flag, "*is_rendering = true" and the drop.
StartRenderTest ==
    /\ ui = "test"
    /\ locks' = [locks EXCEPT !.is_rendering = Free]
    /\ IF is_rendering
       THEN /\ ui' = ret
            /\ UNCHANGED is_rendering
       ELSE /\ is_rendering' = TRUE
            /\ ui' = "scene"
    /\ UNCHANGED <<scene, camera_dirty, frame_buffer, ret, threads, inputVars,
                   pixels, completed>>

\* start_render: "match &self.scene", and the spawn of the render thread.
StartRenderSpawn ==
    /\ ui = "scene"
    /\ IF scene = "Some"
       THEN \E t \in ThreadIds :
                /\ threads[t] = "none"
                /\ t \notin {frame_buffer, completed, pixels}
                /\ threads' = [threads EXCEPT ![t] = "render"]
       ELSE UNCHANGED threads
    /\ ui' = ret
    /\ UNCHANGED <<scene, camera_dirty, is_rendering, frame_buffer, ret, locks,
                   inputVars, pixels, completed>>

\* The render thread: render_to_image and the copy to rgba_buffer.  Where
\* render_to_image panics the thread ends here, and where it does not
\* return the thread goes no further either.
ThreadRender(t) ==
    /\ threads[t] = "render"
    /\ \E returned \in BOOLEAN :
           threads' = [threads EXCEPT ![t] = IF returned THEN "lock_frame_buffer"
                                            ELSE "panicked"]
    /\ UNCHANGED <<scene, camera_dirty, is_rendering, frame_buffer, ui, ret,
                   locks, inputVars, pixels, completed>>

\* "*frame_buffer.lock().unwrap() = Some(rgba_buffer)": the lock.
ThreadLockFrame(t) ==
    /\ threads[t] = "lock_frame_buffer"
    /\ locks.frame_buffer = Free
    /\ locks' = [locks EXCEPT !.frame_buffer = ByThread(t)]
    /\ threads' = [threads EXCEPT ![t] = "store"]
    /\ UNCHANGED <<scene, camera_dirty, is_rendering, frame_buffer, ui, ret,
                   inputVars, pixels, completed>>

\* The assignment, and the drop of the guard at the end of the statement.
ThreadStoreFrame(t) ==
    /\ threads[t] = "store"
    /\ frame_buffer' = t
    /\ locks' = [locks EXCEPT !.frame_buffer = Free]
    /\ threads' = [threads EXCEPT ![t] = "lock_is_rendering"]
    /\ UNCHANGED <<scene, camera_dirty, is_rendering, ui, ret, inputVars,
                   pixels, completed>>

\* "*is_rendering.lock().unwrap() = false": the lock.
ThreadLockFlag(t) ==
    /\ threads[t] = "lock_is_rendering"
    /\ locks.is_rendering = Free
    /\ locks' = [locks EXCEPT !.is_rendering = ByThread(t)]
    /\ threads' = [threads EXCEPT ![t] = "clear"]
    /\ UNCHANGED <<scene, camera_dirty, is_rendering, frame_buffer, ui, ret,
                   inputVars, pixels, completed>>

\* A render thread that clears the flag, keeps the guard of is_rendering
\* and goes on to store its frame once more.
ThreadClearFlagKeepsGuard(t) ==
    /\ threads[t] = "clear"
    /\ is_rendering' = FALSE
    /\ completed' = t
    /\ threads' = [threads EXCEPT ![t] = "lock_frame_buffer"]
    /\ UNCHANGED <<scene, camera_dirty, frame_buffer, ui, ret, locks,
                   inputVars, pixels>>

\* The assignment, the drop of the guard, and the end of the thread: its
\* render is completed.
ThreadClearFlag(t) ==
    /\ threads[t] = "clear"
    /\ is_rendering' = FALSE
    /\ completed' = t
    /\ locks' = [locks EXCEPT !.is_rendering = Free]
    /\ threads' = [threads EXCEPT ![t] = "none"]
    /\ UNCHANGED <<scene, camera_dirty, frame_buffer, ui, ret, inputVars,
                   pixels>>

otherVars == <<bvhVars, traceVars, renderVars, diskVars>>

\* What the save of a frame leaves alone, outside the fields of App.
savedVars == <<bvhVars, traceVars, parameters, blocks, workers, collected,
               lines, material>>

\* The events of the user: keys, mouse buttons and the wheel.
UserInput ==
    \/ KeyInput /\ UNCHANGED otherVars
    \/ KeySpace /\ UNCHANGED otherVars
    \/ KeySaveLock /\ UNCHANGED otherVars
    \/ MouseInput /\ UNCHANGED otherVars
    \/ PointerInput /\ UNCHANGED otherVars

\* The delivery of a RedrawRequested event.
RedrawRequested == RedrawAutoRotate /\ UNCHANGED otherVars

\* The passing of time.
TimePasses == Elapsed /\ UNCHANGED otherVars

\* The steps of the UI thread inside a handler.
UiStep ==
    \/ LoadResult /\ UNCHANGED otherVars
    \/ KeySave /\ UNCHANGED savedVars
    \/ RedrawStart /\ UNCHANGED otherVars
    \/ RedrawEgui /\ UNCHANGED otherVars
    \/ UpdateLock /\ UNCHANGED otherVars
    \/ UpdateReturn /\ UNCHANGED otherVars
    \/ StartRenderLock /\ UNCHANGED otherVars
    \/ StartRenderTest /\ UNCHANGED otherVars
    \/ StartRenderSpawn /\ UNCHANGED otherVars

\* The steps of the render thread t.
ThreadStep(t) ==
    \/ ThreadRender(t) /\ UNCHANGED otherVars
    \/ ThreadLockFrame(t) /\ UNCHANGED otherVars
    \/ ThreadStoreFrame(t) /\ UNCHANGED otherVars
    \/ ThreadLockFlag(t) /\ UNCHANGED otherVars
    \/ ThreadClearFlag(t) /\ UNCHANGED otherVars

NextApp ==
    \/ UserInput
    \/ RedrawRequested
    \/ TimePasses
    \/ UiStep
    \/ \E t \in ThreadIds : ThreadStep(t)

SpecApp == InitApp /\ [][NextApp]_vars

\* The UI thread keeps running; a render thread that finds a mutex free
\* again and again gets it; time passes; and redraw events keep being
\* delivered (MainEventsCleared asks for one while auto_rotate,
\* is_rendering or camera_dirty holds).
FairApp ==
    /\ SpecApp
    /\ WF_vars(UiStep)
    /\ \A t \in ThreadIds : SF_vars(ThreadStep(t))
    /\ SF_vars(RedrawRequested)
    /\ SF_vars(TimePasses)
(***************************************************************************)
(* u32 arithmetic of the pixel closure.  A u32 is the pair <<hi, lo>> of   *)
(* its 16-bit halves.                                                      *)
(***************************************************************************)
Half == 65536

U32(n) == <<n \div Half, n % Half>>

\* The 32-bit product of two 16-bit numbers.
Mul16(a, b) ==
    LET high == a * (b \div 256)
        low == a * (b % 256) + ((high % 256) * 256)
    IN  <<(high \div 256) + (low \div Half), low % Half>>

\* u32::wrapping_add
wrapping_add(a, b) ==
    LET low == a[2] + b[2]
    IN  <<(a[1] + b[1] + (low \div Half)) % Half, low % Half>>

\* u32::wrapping_mul
wrapping_mul(a, b) ==
    LET low == Mul16(a[2], b[2])
        mixed == Mul16(a[1], b[2])[2] + Mul16(a[2], b[1])[2]
    IN  <<(low[1] + mixed) % Half, low[2]>>

RECURSIVE Xor16(_, _)
Xor16(a, b) ==
    IF a = 0 THEN b
    ELSE IF b = 0 THEN a
    ELSE 2 * Xor16(a \div 2, b \div 2) + ((a + b) % 2)

Xor(a, b) == <<Xor16(a[1], b[1]), Xor16(a[2], b[2])>>

\* x << n for n < 16
Shl(x, n) ==
    <<((x[1] * (2 ^ n)) % Half) + (x[2] \div (2 ^ (16 - n))), (x[2] * (2 ^ n)) % Half>>

\* x >> n for n >= 16
Shr(x, n) == <<0, x[1] \div (2 ^ (n - 16))>>

\* Vec3f::xor_shift: the new state, which is also the number returned.
xor_shift(x) ==
    LET x1 == Xor(x, Shl(x, 13))
        x2 == Xor(x1, Shr(x1, 17))
    IN  Xor(x2, Shl(x2, 5))

RECURSIVE TopBit(_)
TopBit(a) == IF a <= 1 THEN 0 ELSE 1 + TopBit(a \div 2)

\* "x as f32": the nearest number of 24 significant bits, ties to even.
AsF32(x) ==
    IF x[1] < 256 THEN x
    ELSE LET s == TopBit(x[1]) - 7
             r == x[2] % (2 ^ s)
             odd == (x[2] \div (2 ^ s)) % 2 = 1
             up == r > 2 ^ (s - 1) \/ (r = 2 ^ (s - 1) /\ odd)
             low == x[2] - r + (IF up THEN 2 ^ s ELSE 0)
         IN  <<x[1] + (low \div Half), low % Half>>

\* Vec3f::rand_f32: the new state, and the f32 returned, written as its
\* numerator over 2^32 (u32::MAX as f32).
rand_f32(rng) ==
    LET x == xor_shift(rng)
    IN  [state |-> x, value |-> AsF32(x)]

\* The seed of pixel index.
Seed(index) == wrapping_mul(U32(987612486), wrapping_add(U32(index), U32(87636354)))

(***************************************************************************)
(* Renderer::render_to_image.  The colour Ray::trace returns is a function *)
(* of the ray, of the scene and of the numbers it draws; the ray is a      *)
(* function of x, y and the two jitter numbers.  A sample is written as    *)
(* these arguments in place of the colour: the jitter numbers and the      *)
(* numbers Ray::trace drew.  Whether a ray meets the scene is for the      *)
(* scene to say: a scene of the model is given as the number of surfaces   *)
(* every ray meets, one after the other, before it leaves the scene.       *)
(***************************************************************************)
MaxSide == 2
MaxWorkers == 2

SampleCounts == {1, 2}

\* The scenes: nothing in view, and a wall that fills the view.
Scenes == {0, 1}

\* Ray::trace from an iteration of its loop on: one number is drawn for
\* the Fresnel test of every hit, none on a miss.
RECURSIVE TraceDraws(_, _, _, _)
TraceDraws(rng_state, bounces_left, drawn, surfaces) ==
    IF bounces_left = 0 \/ surfaces = 0
    THEN [state |-> rng_state, drawn |-> drawn]
    ELSE LET r == rand_f32(rng_state)
         IN  TraceDraws(r.state, bounces_left - 1, Append(drawn, r.value),
                        surfaces - 1)

\* One iteration of "for _ in 0..samples": the ray and Ray::trace.
Sample(rng_state, p) ==
    LET r1 == rand_f32(rng_state)
        r2 == rand_f32(r1.state)
        trace == IF p.debug_mode THEN [state |-> r2.state, drawn |-> <<>>]
                 ELSE TraceDraws(r2.state, p.max_ray_depth, <<>>, p.scene)
    IN  [state |-> trace.state,
         color |-> [jitter |-> <<r1.value, r2.value>>, drawn |-> trace.drawn]]

\* The loop over the samples, from n iterations before its end.
RECURSIVE Samples(_, _, _, _)
Samples(rng_state, final_color, n, p) ==
    IF n = 0 THEN final_color
    ELSE LET s == Sample(rng_state, p)
         IN  Samples(s.state, Append(final_color, s.color),
                     IF p.debug_mode THEN 0 ELSE n - 1, p)

\* A closure that counts the rows from 0: y = height - 1 - index / width.
PixelRowsFrom0(index, img, final_color) ==
    [x |-> index % img.width,
     y |-> img.height - 1 - (index \div img.width),
     final_color |-> final_color]

\* The closure's result for a pixel: x, y and its samples.
Pixel(index, img, final_color) ==
    [x |-> index % img.width,
     y |-> img.height - (index \div img.width),
     final_color |-> final_color]

\* "final_color.into()": the three bytes of a colour, red, green and blue.
IntoBytes(color) == [c \in 1 .. 3 |-> [channel |-> c, color |-> color]]

\* The closure as a function of the pixel index.
PixelOf(index, img, p) ==
    IntoBytes(Pixel(index, img, Samples(Seed(index), <<>>, p.samples, p)))

\* into_flattened: the arrays of three bytes, one after the other.
into_flattened(arrays) ==
    [k \in 1 .. 3 * Len(arrays) |-> arrays[((k - 1) \div 3) + 1][((k - 1) % 3) + 1]]

IdleWorker ==
    [pc |-> "idle", index |-> 0, rng_state |-> <<0, 0>>, final_color |-> <<>>,
     left |-> 0]

NumPixels == image.width * image.height

\* by_uniform_blocks(block_size): the indices of the block starting at start.
BlocksOf(num_threads, start) ==
    LET block_size == NumPixels \div num_threads
    IN  { k \in start .. start + block_size - 1 : k < NumPixels }

InitRender ==
    /\ InitBuild(<<>>)
    /\ TraceIdle
    /\ AppIdle
    /\ DiskIdle
    /\ \E width \in 1 .. MaxSide, height \in 1 .. MaxSide :
           image = [width |-> width, height |-> height, bytes |-> <<>>]
    /\ \E samples \in SampleCounts, debug_mode \in BOOLEAN, surfaces \in Scenes :
           parameters = [samples |-> samples, max_ray_depth |-> MaxBounces,
                         debug_mode |-> debug_mode, scene |-> surfaces]
    /\ \E num_threads \in 1 .. MaxWorkers :
           /\ blocks = [num_threads |-> num_threads, start |-> 0,
                        pending |-> {}, state |-> "call"]
           /\ workers = [w \in 1 .. num_threads |-> IdleWorker]
    /\ collected = <<>>

\* "by_uniform_blocks(block_size)": rayon refuses a block size of 0 with a
\* panic; otherwise the first block starts.
UniformBlocks ==
    /\ blocks.state = "call"
    /\ IF NumPixels \div blocks.num_threads = 0
       THEN blocks' = [blocks EXCEPT !.state = "panic"]
       ELSE blocks' = [blocks EXCEPT !.pending = BlocksOf(blocks.num_threads, 0),
                                     !.state = "run"]
    /\ UNCHANGED <<image, parameters, workers, collected>>

\* A worker that keeps the rng_state of the pixel it rendered before.
PixelBeginNoSeed(w) ==
    /\ blocks.state = "run"
    /\ workers[w].pc = "idle"
    /\ \E index \in blocks.pending :
           /\ workers' = [workers EXCEPT ![w] =
                             [pc |-> "sample", index |-> index,
                              rng_state |-> workers[w].rng_state,
                              final_color |-> <<>>,
                              left |-> parameters.samples]]
           /\ blocks' = [blocks EXCEPT !.pending = @ \ {index}]
    /\ UNCHANGED <<image, parameters, collected>>

\* A worker takes a pixel of the running block: the closure up to the loop.
PixelBegin(w) ==
    /\ blocks.state = "run"
    /\ workers[w].pc = "idle"
    /\ \E index \in blocks.pending :
           /\ workers' = [workers EXCEPT ![w] =
                             [pc |-> "sample", index |-> index,
                              rng_state |-> Seed(index),
                              final_color |-> <<>>,
                              left |-> parameters.samples]]
           /\ blocks' = [blocks EXCEPT !.pending = @ \ {index}]
    /\ UNCHANGED <<image, parameters, collected>>

\* One iteration of the loop over the samples.
PixelSample(w) ==
    /\ workers[w].pc = "sample"
    /\ workers[w].left > 0
    /\ LET s == Sample(workers[w].rng_state, parameters)
       IN  workers' = [workers EXCEPT
                          ![w].rng_state = s.state,
                          ![w].final_color = Append(@, s.color),
                          ![w].left = IF parameters.debug_mode THEN 0 ELSE @ - 1]
    /\ UNCHANGED <<image, parameters, blocks, collected>>

\* The end of the closure: its result goes to the place of its index.
PixelEnd(w) ==
    /\ workers[w].pc = "sample"
    /\ workers[w].left = 0
    /\ collected' = [k \in DOMAIN collected \cup {workers[w].index} |->
                        IF k = workers[w].index
                        THEN IntoBytes(Pixel(workers[w].index, image,
                                             workers[w].final_color))
                        ELSE collected[k]]
    /\ workers' = [workers EXCEPT ![w].pc = "idle"]
    /\ UNCHANGED <<image, parameters, blocks>>

\* The running block is finished: the next one, or the collect into
\* image.bytes, in the order of the indices.
BlockEnd ==
    /\ blocks.state = "run"
    /\ blocks.pending = {}
    /\ \A w \in DOMAIN workers : workers[w].pc = "idle"
    /\ LET next == blocks.start + (NumPixels \div blocks.num_threads)
       IN  IF next < NumPixels
           THEN /\ blocks' = [blocks EXCEPT !.start = next, !.pending = BlocksOf(blocks.num_threads, next)]
                /\ UNCHANGED image
           ELSE /\ blocks' = [blocks EXCEPT !.state = "done"]
                /\ image' = [image EXCEPT !.bytes =
                                into_flattened([k \in 1 .. NumPixels |->
                                                   collected[k - 1]])]
    /\ UNCHANGED <<parameters, workers, collected>>

NextRender ==
    \/ UniformBlocks /\ UNCHANGED <<bvhVars, traceVars, appVars, diskVars>>
    \/ \E w \in DOMAIN workers :
           PixelBegin(w) /\ UNCHANGED <<bvhVars, traceVars, appVars, diskVars>>
    \/ \E w \in DOMAIN workers :
           PixelSample(w) /\ UNCHANGED <<bvhVars, traceVars, appVars, diskVars>>
    \/ \E w \in DOMAIN workers :
           PixelEnd(w) /\ UNCHANGED <<bvhVars, traceVars, appVars, diskVars>>
    \/ BlockEnd /\ UNCHANGED <<bvhVars, traceVars, appVars, diskVars>>

SpecRender == InitRender /\ [][NextRender]_vars

(***************************************************************************)
(* Texture::color_at on its own, one iteration of a wrap loop per step.    *)
(* The texture is a column of len texels read from a .bmp file, and the    *)
(* texture coordinates are <<idx, 0>>, so that the linear index is idx.    *)
(***************************************************************************)
MaxTexels == 4
MaxIndex == 9

InitColorAt ==
    /\ InitBuild(<<>>)
    /\ AppIdle
    /\ DiskIdle
    /\ RenderIdle
    /\ file = NoObj
    /\ materials = <<>>
    /\ \E len \in 0 .. MaxTexels :
           textures = <<BMP_load(Bmp(1, len, 3 * len)).texture>>
    /\ \E idx \in (0 - MaxIndex) .. MaxIndex :
           hit_info = [HitInfoDefault EXCEPT !.has_hit = TRUE, !.uv = <<idx, 0>>]
    /\ tpc = "color_at"
    /\ max_bounces = 0
    /\ debug_bvh = FALSE
    /\ curr_bounces = 0
    /\ descents = 0
    /\ tstack = <<>>
    /\ sample = [tex |-> 0, index |-> 0, after |-> "returned", iter |-> 0]
    /\ light = NoLight
    /\ walk = NoWalk

\* A first loop that subtracts len instead of len - 1.
WrapDownIterLen ==
    /\ tpc = "wrap_down"
    /\ LET d == Len(At(textures, sample.tex).pixel_data) - 1
           index == sample.index
       IN  IF ~(index > d) THEN WrapExit("wrap_up")
           ELSE IF d >= 0 THEN WrapTo(index - (d + 1))
           ELSE IF index < I32_MAX THEN WrapTo(I32_MAX)
           ELSE TracePanic \/ WrapTo(I32_MIN)

\* One iteration of "while index > len - 1 { index -= len - 1 }" (with
\* len = 0 the run of iterations up to i32::MAX, as in WrapDown).
WrapDownIter ==
    /\ tpc = "wrap_down"
    /\ LET d == Len(At(textures, sample.tex).pixel_data) - 1
           index == sample.index
       IN  IF ~(index > d) THEN WrapExit("wrap_up")
           ELSE IF d >= 0 THEN WrapTo(index - d)
           ELSE IF index < I32_MAX THEN WrapTo(I32_MAX)
           ELSE TracePanic \/ WrapTo(I32_MIN)

\* One iteration of "while index < 0 { index += len - 1 }" (with len = 0
\* the run of iterations down to i32::MIN, as in WrapUp).
WrapUpIter ==
    /\ tpc = "wrap_up"
    /\ LET d == Len(At(textures, sample.tex).pixel_data) - 1
           index == sample.index
       IN  IF ~(index < 0) THEN WrapExit("texel")
           ELSE IF d >= 0 THEN WrapTo(index + d)
           ELSE IF index > I32_MIN THEN WrapTo(I32_MIN)
           ELSE TracePanic \/ WrapTo(I32_MAX)

NextColorAt ==
    \/ ColorAtEnter /\ UNCHANGED <<bvhVars, sceneVars, appVars, renderVars, diskVars>>
    \/ WrapDownIter /\ UNCHANGED <<bvhVars, sceneVars, appVars, renderVars, diskVars>>
    \/ WrapUpIter /\ UNCHANGED <<bvhVars, sceneVars, appVars, renderVars, diskVars>>
    \/ Texel /\ UNCHANGED <<bvhVars, sceneVars, appVars, renderVars, diskVars>>

SpecColorAt == InitColorAt /\ [][NextColorAt]_vars


\* The thread that runs color_at keeps running.
FairColorAt == SpecColorAt /\ WF_vars(NextColorAt)
(***************************************************************************)
(* BVH::build on the scenes of one triangle and of two triangles that are  *)
(* far apart.  A single triangle is any shape at any place of the grid, or *)
(* the triangle whose x coordinates span the whole f32 range (an .obj file *)
(* may hold it: "v -3.4028235e38 0 0", "v 3.4028235e38 0 0", "v 0 1 0").   *)
(***************************************************************************)
MaxShift == 2

Huge == << <<0 - F32_MAX, 0, 0>>, <<F32_MAX, 0, 0>>, <<0, 1, 0>> >>

Gaps == {3, 10}

OneTriangle ==
    { Triangle(Moved(Shapes[s], axis, d), 0) :
          s \in DOMAIN Shapes, axis \in Axes, d \in 0 .. MaxShift }
    \cup { Triangle(Huge, 0) }

\* Two triangles with a gap along one axis, the far one first or second.
TwoSeparated ==
    LET Near(s) == Triangle(Shapes[s], 0)
        Far(s, axis, gap) == Triangle(Moved(Shapes[s], axis, gap), 0)
    IN  { <<Near(s1), Far(s2, axis, gap)>> :
              s1 \in DOMAIN Shapes, s2 \in DOMAIN Shapes, axis \in Axes, gap \in Gaps }
        \cup { <<Far(s2, axis, gap), Near(s1)>> :
              s1 \in DOMAIN Shapes, s2 \in DOMAIN Shapes, axis \in Axes, gap \in Gaps }

InitScenario ==
    /\ \E list \in { <<t>> : t \in OneTriangle } \cup TwoSeparated : InitBuild(list)
    /\ TraceIdle
    /\ AppIdle
    /\ DiskIdle
    /\ RenderIdle

SpecScenario == InitScenario /\ [][Next]_vars

(***************************************************************************)
(* Ray::trace up to the end of its first descent, on scenes whose leaves   *)
(* hold one or two triangles: the scenario triangle a, its mirror image b  *)
(* in the same box, which faces the other way, a copy c of a moved away    *)
(* along z, and a triangle d in the plane z = x, with the normals and      *)
(* texture coordinates of vn and vt lines.                                 *)
(***************************************************************************)
TraverseScenes ==
    LET Flat(shape) == Shaded(shape, 0,
                              <<FaceNormal(shape), FaceNormal(shape),
                                FaceNormal(shape)>>,
                              <<<<0, 0>>, <<0, 0>>, <<0, 0>>>>)
        a == Flat(Shapes[1])
        b == Flat(Shapes[2])
        c == Flat(Face(2))
        d == Shaded(<< <<0, 0, 0>>, <<1, 0, 1>>, <<0, 1, 0>> >>, 0,
                    << <<0, 0, 1>>, <<0, 0, 1>>, <<0, 0, 1>> >>,
                    << <<0, 0>>, <<0, 0>>, <<0, 0>> >>)
    IN  { <<a>>, <<a, b>>, <<a, c>>, <<a, b, c>>, <<c, a, b>>, <<a, c, b>>,
          <<c, b, a>>, <<d>>, <<d, c>> }

InitTraverse ==
    /\ \E list \in TraverseScenes : InitBuild(list)
    /\ file = NoObj
    /\ materials = <<DefaultMaterial>>
    /\ textures = <<>>
    /\ tpc = "idle"
    /\ max_bounces = 0
    /\ debug_bvh = FALSE
    /\ curr_bounces = 0
    /\ descents = 0
    /\ tstack = <<>>
    /\ hit_info = HitInfoDefault
    /\ sample = NoSample
    /\ light = NoLight
    /\ walk = [NoWalk EXCEPT !.kept = TRUE]
    /\ AppIdle
    /\ DiskIdle
    /\ RenderIdle

NextTraverse ==
    \/ BuildRoot /\ UNCHANGED <<traceVars, appVars, renderVars, diskVars>>
    \/ SplitNode /\ UNCHANGED <<traceVars, appVars, renderVars, diskVars>>
    \/ PartitionStep /\ UNCHANGED <<traceVars, appVars, renderVars, diskVars>>
    \/ PartitionEnd /\ UNCHANGED <<traceVars, appVars, renderVars, diskVars>>
    \/ BuildDone /\ UNCHANGED <<traceVars, appVars, renderVars, diskVars>>
    \/ TraceBegin /\ UNCHANGED <<bvhVars, sceneVars, appVars, renderVars, diskVars>>
    \/ TraceLoop /\ UNCHANGED <<bvhVars, sceneVars, appVars, renderVars, diskVars>>
    \/ TraverseBvh /\ UNCHANGED <<bvhVars, sceneVars, appVars, renderVars, diskVars>>
    \/ TraverseEnd /\ UNCHANGED <<bvhVars, sceneVars, appVars, renderVars, diskVars>>
    \/ DebugBvh /\ UNCHANGED <<bvhVars, sceneVars, appVars, renderVars, diskVars>>
    \/ DebugReturn /\ UNCHANGED <<bvhVars, sceneVars, appVars, renderVars, diskVars>>

SpecTraverse == InitTraverse /\ [][NextTraverse]_vars


(***************************************************************************)
(* Image::write_to_path: the saves of frames to one path.                  *)
(***************************************************************************)
\* The frames of the model: the first n pixels white, the others black.
Frames(width, height) ==
    { [k \in 1 .. 3 * width * height |-> IF k <= 3 * n THEN 255 ELSE 0] :
          n \in 0 .. width * height }

InitWrite ==
    /\ InitBuild(<<>>)
    /\ TraceIdle
    /\ AppIdle
    /\ \E width \in 1 .. MaxSide, height \in 1 .. MaxSide :
           \E bytes \in Frames(width, height) :
               image = [width |-> width, height |-> height, bytes |-> bytes]
    /\ parameters = [samples |-> 0, max_ray_depth |-> 0, debug_mode |-> FALSE,
                    scene |-> 0]
    /\ blocks = [num_threads |-> 0, start |-> 0, pending |-> {}, state |-> "off"]
    /\ workers = <<>>
    /\ collected = <<>>
    /\ output_ppm = <<>>
    /\ saved = FALSE
    /\ MtlIdle

\* Another frame is in the buffer that is saved.
NewFrame ==
    /\ \E bytes \in Frames(image.width, image.height) :
           image' = [image EXCEPT !.bytes = bytes]
    /\ saved' = FALSE
    /\ UNCHANGED <<output_ppm, lines, material, parameters, blocks, workers,
                   collected>>

\* image.write_to_path("output.ppm")
write_to_path ==
    /\ output_ppm' = Write(output_ppm, Header(image) \o Buffer(image, 0))
    /\ saved' = TRUE
    /\ UNCHANGED <<renderVars, lines, material>>

NextWrite ==
    \/ NewFrame /\ UNCHANGED <<bvhVars, traceVars, appVars>>
    \/ write_to_path /\ UNCHANGED <<bvhVars, traceVars, appVars>>

SpecWrite == InitWrite /\ [][NextWrite]_vars

(***************************************************************************)
(* OBJ::load_mtl line by line.  A line is its first word (prefix), the     *)
(* name of a newmtl line and the numbers of an attribute line; a blank     *)
(* line has the prefix "".                                                 *)
(***************************************************************************)
MaxLines == 4

Line(prefix, name, vals) == [prefix |-> prefix, name |-> name, vals |-> vals]

\* The lines of the material files of the model: "newmtl m1", "newmtl m2",
\* "Kd 0 0 0", "Ni 2", "illum 2", a blank line and a comment.
MtlLines ==
    { Line("newmtl", "m1", <<>>), Line("newmtl", "m2", <<>>),
      Line("Kd", "", Black), Line("Ni", "", <<2, 1>>),
      Line("illum", "", <<2>>), Line("", "", <<>>), Line("#", "", <<>>) }

\* .filter(|line| !line.trim_start().starts_with("#"))
NotComment(line) == line.prefix # "#"

\* line.contains("newmtl")
ContainsNewmtl(line) == line.prefix = "newmtl"

\* Material::default() with the name of the newmtl line.
NewMaterial(line) ==
    [open |-> TRUE, name |-> line.name,
     base_color |-> DefaultMaterial.base_color, ior |-> DefaultMaterial.ior]

\* The material pushed at the end of the inner loop.
Pushed(mat) ==
    [DefaultMaterial EXCEPT !.name = mat.name, !.base_color = mat.base_color,
                            !.ior = mat.ior]

\* "match prefix": the arms of the attributes of the model; every other
\* prefix takes "_ => continue".
Attribute(mat, line) ==
    IF line.prefix = "Kd" THEN [mat EXCEPT !.base_color = line.vals]
    ELSE IF line.prefix = "Ni" THEN [mat EXCEPT !.ior = line.vals]
    ELSE mat

InitMtl ==
    /\ InitBuild(<<>>)
    /\ AppIdle
    /\ RenderIdle
    /\ output_ppm = <<>>
    /\ saved = FALSE
    /\ file \in SeqsUpTo(MtlLines, MaxLines)
    /\ lines = SelectSeq(file, NotComment)
    /\ material = NoMaterial
    /\ materials = <<>>
    /\ textures = <<>>
    /\ tpc = "idle"
    /\ max_bounces = 0
    /\ debug_bvh = FALSE
    /\ curr_bounces = 0
    /\ descents = 0
    /\ tstack = <<>>
    /\ hit_info = HitInfoDefault
    /\ sample = NoSample
    /\ light = NoLight
    /\ walk = NoWalk

\* One iteration of the outer loop up to the inner loop: the next line, and
\* a material begun when the line contains "newmtl".
MtlLine ==
    /\ ~material.open
    /\ lines # <<>>
    /\ lines' = Tail(lines)
    /\ material' = IF ContainsNewmtl(Head(lines)) THEN NewMaterial(Head(lines))
                   ELSE material
    /\ UNCHANGED <<file, materials, textures, output_ppm, saved>>

\* One iteration of the inner loop: it ends, and the material is pushed,
\* when no line is left or the next line has no first word; every other
\* line is taken from the iterator and matched.
MtlBlockLine ==
    /\ material.open
    /\ IF lines = <<>>
       THEN /\ materials' = Append(materials, Pushed(material))
            /\ material' = NoMaterial
            /\ UNCHANGED lines
       ELSE IF Head(lines).prefix = ""
       THEN /\ materials' = Append(materials, Pushed(material))
            /\ material' = NoMaterial
            /\ lines' = Tail(lines)
       ELSE /\ material' = Attribute(material, Head(lines))
            /\ lines' = Tail(lines)
            /\ UNCHANGED materials
    /\ UNCHANGED <<file, textures, output_ppm, saved>>

NextMtl ==
    \/ MtlLine /\ UNCHANGED <<bvhVars, traceLocals, appVars, renderVars>>
    \/ MtlBlockLine /\ UNCHANGED <<bvhVars, traceLocals, appVars, renderVars>>

SpecMtl == InitMtl /\ [][NextMtl]_vars
(***************************************************************************)
(* Properties of the builder.                                              *)
(***************************************************************************)
IsLeaf(node) == node.num_tris > 0

LeafRange(node) == node.first_tri_id .. node.first_tri_id + node.num_tris - 1

LeavesOf(ns) == { k \in 1 .. Len(ns) : IsLeaf(ns[k]) }

InBox(node, vert) ==
    \A a \in Axes : node.bounds_min[a] <= vert[a] /\ vert[a] <= node.bounds_max[a]

TriInBox(node, tri) == \A k \in 1 .. 3 : InBox(node, tri.vertices[k])

Built == pc = "done" /\ Len(input) >= 1

\* C1: after BVH::build on N >= 1 triangles the index ranges of the leaves
\* are pairwise disjoint and their union is exactly [0, N): every triangle
\* index lies in the range of exactly one leaf.
C1_LeafRangesPartition ==
    Built =>
        /\ \A t \in 0 .. Len(tris) - 1 :
               Cardinality({ k \in LeavesOf(bvh) : t \in LeafRange(bvh[k]) }) = 1
        /\ \A k \in LeavesOf(bvh) : LeafRange(bvh[k]) \subseteq 0 .. Len(tris) - 1

C1_Witness == Built /\ Cardinality(LeavesOf(bvh)) >= 3

\* C2: after BVH::build on N >= 1 triangles the root box contains every
\* vertex of every triangle, and the box of every leaf contains every vertex
\* of the triangles at its indices of the final (permuted) scene.tris.
C2_BoxesEnclose ==
    Built =>
        /\ \A t \in 1 .. Len(tris) : TriInBox(bvh[1], tris[t])
        /\ \A k \in LeavesOf(bvh) :
               \A t \in LeafRange(bvh[k]) : TriInBox(bvh[k], At(tris, t))

C2_Witness ==
    /\ Built
    /\ tris # input
    /\ \E k \in LeavesOf(bvh) : bvh[k].num_tris >= 2 /\ k > 1

\* C3: in every node array BVH::build produces, each node is a leaf
\* (num_tris > 0 and children_id = 0) or an interior node (num_tris = 0)
\* with children_id >= 1 and both children_id and children_id + 1 inside
\* the array.
C3_NodeShape ==
    pc = "done" =>
        \A k \in 1 .. Len(bvh) :
            \/ bvh[k].num_tris > 0 /\ bvh[k].children_id = 0
            \/ /\ bvh[k].num_tris = 0
               /\ bvh[k].children_id >= 1
               /\ bvh[k].children_id + 1 <= Len(bvh) - 1

C3_Witness ==
    /\ pc = "done"
    /\ \E k \in 2 .. Len(bvh) : bvh[k].num_tris = 0

\* C4: BVH::build is deterministic: a second build of the same triangle
\* list, in the same order, ends with the same node array and the same
\* order of scene.tris as the first, although it starts on a scene that
\* holds the BVH of the first and not an empty one.
C4_BuildDeterministic ==
    (pc = "done" /\ run = 2) => (bvh = first.nodes /\ tris = first.tris)

\* The second build has ended on a scene whose first build made at least
\* five nodes and changed the order of the triangles.
C4_Witness ==
    /\ pc = "done"
    /\ run = 2
    /\ Len(first.nodes) >= 5
    /\ first.tris # input

\* C6: an empty scene can be built: BVH::build on an empty triangle list
\* completes (and the scene then renders to the sky colour).
C6_EmptySceneBuilds == (input = <<>>) => (pc # "panic")

(***************************************************************************)
(* Properties of Ray::trace.                                               *)
(***************************************************************************)
\* C5: rendering never panics: on every scene the loader produces with at
\* least one triangle and for every ray, Ray::trace dereferences only
\* indices that are in range (BVH nodes, triangles, scene.materials,
\* scene.textures) and so never reaches a panic.
C5_RenderNeverPanics == tpc # "panic"

\* C7: every call of Ray::trace enters the BVH at the root at most
\* max_bounces + 1 times and comes to an end (a panic ends it too), in
\* normal and in debug mode.
C7_TraceTerminates ==
    /\ [](descents <= max_bounces + 1)
    /\ (tpc = "loop") ~> (tpc \in {"returned", "panic"})

(***************************************************************************)
(* Properties of the render hand-off.                                      *)
(***************************************************************************)
Running == { t \in DOMAIN threads : threads[t] \notin {"none", "panicked"} }

\* C8: at any time at most one render thread is between the point where
\* start_render sets is_rendering and the point where the thread clears
\* it; and a request for a render made while is_rendering is true (the
\* test of RedrawRequested, the test of start_render) spawns no thread and
\* leaves frame_buffer and is_rendering as they are.
C8_RendersMutuallyExclusive ==
    /\ [](Cardinality(Running) <= 1)
    /\ [][(is_rendering /\ ui \in {"redraw", "test"} /\ ui' # ui)
              => /\ threads' = threads
                 /\ frame_buffer' = frame_buffer
                 /\ is_rendering' = is_rendering
                 /\ ui' \in {"egui", "events"}]_vars

C8_Witness ==
    /\ is_rendering
    /\ camera_dirty
    /\ ui = "egui"
    /\ Cardinality(Running) = 1
    /\ frame_buffer # 0

\* C9: every render that is started runs to completion: whenever
\* start_render has set is_rendering and returned, a render thread is
\* running that will store a frame and clear the flag, whether or not a
\* scene was loaded.
C9_StartedRenderCompletes ==
    (is_rendering /\ ui \notin {"scene"}) => Running # {}

(***************************************************************************)
(* Properties of the parallel driver.                                      *)
(***************************************************************************)
\* C10: the rendered image does not depend on scheduling: whatever the
\* number of threads, the blocks and the interleaving of the workers, the
\* bytes of pixel i in the finished image are those the closure yields as
\* a function of i alone.
C10_ImageIndependentOfScheduling ==
    blocks.state = "done" =>
        image.bytes = into_flattened([k \in 1 .. NumPixels |->
                                         PixelOf(k - 1, image, parameters)])

C10_Witness ==
    /\ blocks.state = "done"
    /\ blocks.num_threads = 2
    /\ NumPixels = 4
    /\ ~parameters.debug_mode
    /\ \E k \in 1 .. 3 * NumPixels :
           image.bytes[k].color.final_color[1].drawn # <<>>

\* C11: for every image size with at least one pixel and every number of
\* worker threads, render_to_image comes to its end with exactly
\* width * height * 3 bytes, the bytes of pixel i at the places 3i, 3i + 1
\* and 3i + 2 (counted from 0).
C11_ThreeBytesPerPixel ==
    /\ blocks.state # "panic"
    /\ blocks.state = "done" =>
           /\ Len(image.bytes) = NumPixels * 3
           /\ \A index \in 0 .. NumPixels - 1 : \A c \in 1 .. 3 :
                  image.bytes[3 * index + c] = PixelOf(index, image, parameters)[c]

(***************************************************************************)
(* Properties of the texture lookup.                                       *)
(***************************************************************************)
\* The linear index idx of the lookup and the number of texels.
LookupIdx == ColorAtIndex(At(textures, 0), hit_info.uv).index
LookupLen == Len(At(textures, 0).pixel_data)

\* The index the wrap loops end with: idx itself when it is in range, a
\* number of 1 .. len - 1 when idx is above the range, a number of
\* 0 .. len - 2 when idx is negative.
Wrapped(idx, len) ==
    IF len < 2 \/ (0 <= idx /\ idx <= len - 1) THEN idx
    ELSE IF idx > len - 1 THEN ((idx - 1) % (len - 1)) + 1
    ELSE idx % (len - 1)

\* C12 as stated: color_at returns the texel at ((idx - 1) mod (len - 1)),
\* for every integer idx.
C12_WrapAsStated ==
    (tpc = "returned" /\ LookupLen >= 2) =>
        sample.index = (LookupIdx - 1) % (LookupLen - 1)

\* C12: whenever color_at returns, it returns the texel at idx itself when
\* 0 <= idx <= len - 1, at ((idx - 1) mod (len - 1)) + 1 when idx > len - 1,
\* and at idx mod (len - 1) (the remainder that is not negative) when
\* idx < 0.
C12_WrapAsCoded ==
    tpc = "returned" =>
        /\ sample.index = Wrapped(LookupIdx, LookupLen)
        /\ sample.index \in 0 .. LookupLen - 1

C12_Witness ==
    /\ tpc = "returned"
    /\ LookupLen >= 3
    /\ LookupIdx > LookupLen
    /\ sample.index # LookupIdx

(***************************************************************************)
(* Properties of the build on the small scenes.                            *)
(***************************************************************************)
\* C15: BVH::build on exactly one triangle, whatever its vertex positions,
\* ends with exactly one node, a leaf with first_tri_id = 0, num_tris = 1
\* and children_id = 0.
C15_OneTriangleOneLeaf ==
    Len(input) = 1 =>
        /\ pc # "panic"
        /\ pc = "done" =>
               /\ Len(bvh) = 1
               /\ bvh[1].first_tri_id = 0
               /\ bvh[1].num_tris = 1
               /\ bvh[1].children_id = 0

\* C16: BVH::build on two triangles that are far apart ends with exactly
\* three nodes: the root is interior with num_tris = 0 and children_id = 1,
\* nodes[1] and nodes[2] are leaves of one triangle each, covering the
\* triangle indices 0 and 1.
C16_TwoSeparatedThreeNodes ==
    (Len(input) = 2 /\ pc = "done") =>
        /\ Len(bvh) = 3
        /\ bvh[1].num_tris = 0 /\ bvh[1].children_id = 1
        /\ bvh[2].num_tris = 1 /\ bvh[2].children_id = 0
        /\ bvh[3].num_tris = 1 /\ bvh[3].children_id = 0
        /\ {bvh[2].first_tri_id, bvh[3].first_tri_id} = {0, 1}

C16_Witness ==
    /\ Len(input) = 2
    /\ pc = "done"
    /\ tris # input
    /\ Len(bvh) = 3

(***************************************************************************)
(* The sweep of split_node.                                                *)
(***************************************************************************)
\* The node the running split_node sweeps, and its index range.
SweepNode == At(nodes, Head(stack))

SweepRange == SweepNode.first_tri_id .. SweepNode.first_tri_id + SweepNode.num_tris - 1

SweepEnded == pc = "partition" /\ i > j

OnLeft(tri) == MidLess(tri, split.best_split_axis, split.best_split_pos8)

\* How many indices of the range hold the triangle tri in the list ts.
CountIn(ts, range, tri) == Cardinality({ k \in range : At(ts, k) = tri })

\* C20: the sweep of split_node is a correct two-pointer partition.  When it
\* ends at index i, every triangle at an index of [first_tri_id, i) has its
\* centroid below split_pos on the split axis and every triangle at an index
\* of [i, first_tri_id + num_tris) has it at or above split_pos.  Every
\* iteration of the sweep leaves the triangles inside the node's range a
\* permutation of what they were and moves no triangle outside the range, so
\* the whole sweep does.  The two children appended after the sweep (left,
\* then right) get the ranges [first_tri_id, i) and [i, first_tri_id +
\* num_tris).
C20_PartitionSweep ==
    /\ [](SweepEnded =>
            /\ i \in SweepNode.first_tri_id .. SweepNode.first_tri_id + SweepNode.num_tris
            /\ \A k \in SweepRange : (k < i) <=> OnLeft(At(tris, k)))
    /\ [][pc = "partition" =>
            /\ Len(tris') = Len(tris)
            /\ \A k \in 0 .. Len(tris) - 1 :
                   k \notin SweepRange => At(tris', k) = At(tris, k)
            /\ \A k \in SweepRange :
                   CountIn(tris', SweepRange, At(tris, k)) =
                       CountIn(tris, SweepRange, At(tris, k))]_vars
    /\ [][(pc = "partition" /\ Len(nodes') > Len(nodes)) =>
            /\ Len(nodes') = Len(nodes) + 2
            /\ nodes'[Len(nodes) + 1].first_tri_id = SweepNode.first_tri_id
            /\ nodes'[Len(nodes) + 1].num_tris = i - SweepNode.first_tri_id
            /\ nodes'[Len(nodes) + 2].first_tri_id = i
            /\ nodes'[Len(nodes) + 2].num_tris =
                   SweepNode.first_tri_id + SweepNode.num_tris - i]_vars

\* A sweep of a node other than the root has ended after it swapped
\* triangles, with triangles on both sides of the split.
C20_Witness ==
    /\ SweepEnded
    /\ SweepNode.first_tri_id > 0
    /\ i > SweepNode.first_tri_id
    /\ i < SweepNode.first_tri_id + SweepNode.num_tris
    /\ \E k \in SweepRange : At(tris, k) # At(input, k)
    /\ \A k \in 0 .. Len(tris) - 1 : k \notin SweepRange => At(tris, k) = At(input, k)

(***************************************************************************)
(* The loader without a material file.                                     *)
(***************************************************************************)
NoMaterialFile == ~file.mtllib.line \/ ~file.mtllib.exists

\* C17: when the .obj file has no mtllib line, or names a material file that
\* does not exist, OBJ::load ends with exactly one material, the default
\* one, and every triangle of the file has material_id 0, whatever name the
\* usemtl line gives.
C17_DefaultMaterialFallback ==
    (NoMaterialFile /\ pc # "load") =>
        /\ pc # "load_panic"
        /\ materials = <<DefaultMaterial>>
        /\ Len(input) = file.faces
        /\ \A k \in 1 .. Len(input) : input[k].material_id = 0

\* A file that names a missing material file and an unknown material has
\* been loaded.
C17_Witness ==
    /\ file.mtllib.line
    /\ ~file.mtllib.exists
    /\ file.usemtl = "zz"
    /\ pc = "done"
    /\ Len(input) = MaxFaces

(***************************************************************************)
(* The colour of a pixel from the values Ray::trace returned.              *)
(***************************************************************************)
\* The sums final_color += ... and the mean final_color /= samples are
\* exact for values that are whole eighths.
Eighths == 8

\* One channel of a pixel of `samples` equal samples, each the value
\* sum / over in thousandths: the sum of the samples and its mean, which
\* are the sample itself for 1 sample and for a sample of whole eighths,
\* then linear_to_gamma (the square root of a positive value) and the
\* conversion to a byte, floor(c * 255) clamped to 0 .. 255.  Without a
\* sample the sum is 0.0 and the mean 0.0 / 0.0, which linear_to_gamma
\* leaves at 0.0.
ChannelByte(sum, over, samples) ==
    CASE samples = 0 -> 0
      [] samples = 1 \/ (samples > 1 /\ (sum * Eighths) % (Milli * over) = 0) ->
        IF sum <= 0 THEN 0
        ELSE CHOOSE b \in 0 .. 255 :
                 /\ b * b * Milli * over <= 255 * 255 * sum
                 /\ b = 255 \/ (b + 1) * (b + 1) * Milli * over > 255 * 255 * sum

PixelBytes(result) ==
    [c \in 1 .. 3 |-> ChannelByte(result.light[c], result.over, 1)]

\* The material of triangle t of the scene.
MaterialOf(t) == At(materials, At(tris, t).material_id)

\* Scenario 1: one white triangle that emits nothing, max_bounces = 1,
\* debug off; the pixel takes 1 sample.
Scenario1 ==
    /\ Len(tris) = 1
    /\ Len(materials) >= 1
    /\ MaterialOf(0) = [DefaultMaterial EXCEPT !.name = MaterialOf(0).name]
    /\ max_bounces = 1
    /\ ~debug_bvh

\* C13: in scenario 1 a pixel whose primary ray hits the triangle has the
\* linear value sky_color * base_color = 1.0, that is the byte 255 in each
\* channel.
C13_HitPixelIsWhite ==
    (tpc = "returned" /\ Scenario1 /\ hit_info.has_hit) =>
        PixelBytes(light.result) = <<255, 255, 255>>

(***************************************************************************)
(* The sky branch.                                                         *)
(***************************************************************************)
\* The descent has returned without a hit.
Missed == tpc = "traverse" /\ tstack = <<>> /\ ~hit_info.has_hit

\* C19: when the descent reports no hit, Ray::trace adds exactly
\* sky_color * sky_strength * ray_color to incoming_light and leaves the
\* loop, whatever was hit on the bounces before.
C19_SkyAddsSkyLight ==
    [][Missed =>
         /\ tpc' = "returned"
         /\ light'.incoming_light =
                VAdd(light.incoming_light,
                     VMul(VMul(sky_color, sky_strength), light.ray_color))]_vars

(***************************************************************************)
(* The debug view.                                                         *)
(***************************************************************************)
\* The BVH of scenario 4: an interior root and two leaves of one triangle.
TwoTriangleBvh ==
    /\ Len(bvh) = 3
    /\ bvh[1].num_tris = 0
    /\ bvh[1].children_id = 1
    /\ bvh[2].num_tris = 1
    /\ bvh[3].num_tris = 1

\* The nodes whose box the slab test of the running ray meets, each
\* taken by itself, and the leaves among them.
BoxesMet == { index \in 0 .. Len(bvh) - 1 : intersect_node(ray, At(bvh, index)) }

LeafBoxesMet == { index \in BoxesMet : At(bvh, index).num_tris > 0 }

DebugReturned == tpc = "returned" /\ debug_bvh /\ TwoTriangleBvh

\* C14 as stated: in debug mode on the two-triangle BVH, Ray::trace returns
\* a nonzero red or green component for every ray whose slab test hits a
\* leaf box, and exactly (0,0,0) for every other ray, the rays that hit the
\* root box but neither leaf box included.
C14_ZeroElsewhere ==
    DebugReturned =>
        IF LeafBoxesMet # {}
        THEN light.result.light[1] # 0 \/ light.result.light[2] # 0
        ELSE light.result.light = Black

\* C14, amended: in debug mode on the two-triangle BVH, Ray::trace returns
\* (0,0,0) when max_bounces = 0 and when the slab test of the ray misses
\* the root box, also for a ray whose slab test hits a leaf box (a ray in
\* the plane of a flat leaf box); otherwise it returns red 0, green 0.05
\* for each leaf box the slab test hits, and blue 0.005, so (0, 0, 0.005)
\* for a ray that hits the root box but neither leaf box.
C14_DebugTint ==
    DebugReturned =>
        /\ light.result.over = 1
        /\ light.result.light =
               IF max_bounces = 0 \/ 0 \notin BoxesMet THEN Black
               ELSE <<0, 50 * Cardinality(LeafBoxesMet), 5>>

\* A debug ray in the plane of the first face has returned (0,0,0): its
\* slab test hits the flat box of the leaf of that face and misses the
\* root box.
C14_Witness ==
    /\ DebugReturned
    /\ max_bounces >= 1
    /\ LeafBoxesMet # {}
    /\ 0 \notin BoxesMet
    /\ light.result.light = Black

(***************************************************************************)
(* The descent of traverse_bvh.                                            *)
(***************************************************************************)
\* The nodes a depth-first descent from node index visits, in order, when
\* boxes are the nodes whose slab test the ray passes: the node, and when
\* the ray meets its box and it is interior, its subtree at children_id and
\* then its subtree at children_id + 1.
RECURSIVE Preorder(_, _)
Preorder(index, boxes) ==
    LET node == At(bvh, index)
    IN  IF index \in boxes /\ node.num_tris = 0
        THEN <<index>> \o Preorder(node.children_id, boxes)
                       \o Preorder(node.children_id + 1, boxes)
        ELSE <<index>>

\* The triangles of the leaves among the nodes order[k ..], leaf by leaf and
\* in index order within a leaf, when the ray meets the leaf's box.
RECURSIVE TrisOf(_, _, _)
TrisOf(order, boxes, k) ==
    IF k > Len(order) THEN <<>>
    ELSE LET node == At(bvh, order[k])
         IN  (IF order[k] \in boxes /\ node.num_tris > 0
              THEN [t \in 1 .. node.num_tris |-> node.first_tri_id + t - 1]
              ELSE <<>>) \o TrisOf(order, boxes, k + 1)

\* The places of the record of tested triangles that report a hit, those
\* of them at a distance below f32::MAX, and the first among the places of
\* a set with the smallest distance.
Hits == { k \in 1 .. Len(walk.tris) : walk.tris[k].temp_hit_info.has_hit }

HitsBelowMax ==
    { k \in Hits : FLt(walk.tris[k].temp_hit_info.distance, F32_MAX) }

Nearest(places) ==
    CHOOSE k \in places :
        \A h \in places :
            \/ FLt(walk.tris[k].temp_hit_info.distance,
                   walk.tris[h].temp_hit_info.distance)
            \/ walk.tris[k].temp_hit_info.distance = walk.tris[h].temp_hit_info.distance /\ k <= h

Descended == tpc = "traverse" /\ tstack = <<>>

\* The order of the descent, and hit_info as the first hit of the smallest
\* distance among places, or as it was when places is empty.
DescentKeeps(places) ==
    /\ [k \in 1 .. Len(walk.nodes) |-> walk.nodes[k].index] = Preorder(0, BoxesMet)
    /\ [k \in 1 .. Len(walk.tris) |-> walk.tris[k].tri] =
           TrisOf(Preorder(0, BoxesMet), BoxesMet, 1)
    /\ IF places = {} THEN hit_info = HitInfoDefault
       ELSE /\ hit_info.has_hit
            /\ hit_info.distance = walk.tris[Nearest(places)].temp_hit_info.distance
            /\ hit_info.front_face = walk.tris[Nearest(places)].temp_hit_info.front_face
            /\ hit_info.material_id = At(tris, walk.tris[Nearest(places)].tri).material_id

LowestOfMinimalCost(costs) ==
    CHOOSE c \in 0 .. 3 * NUM_BINS - 1 :
        \A d \in 0 .. 3 * NUM_BINS - 1 :
            \/ costs[c + 1] < costs[d + 1]
            \/ costs[c + 1] = costs[d + 1] /\ c <= d

\* The costs of the candidates of the node split_node works on.
CostsOfNode ==
    LET cands == Candidates(tris, SweepNode)
    IN  [c \in 1 .. 3 * NUM_BINS |-> cands[c].best_split_cost]

\* C21: split_node selects the candidate of minimal cost, and among
\* candidates of that cost the one of the lowest axis index and, on that
\* axis, the lowest bin index (the axes are taken in the order 0, 1, 2 and
\* the bins in the order 0 .. 7); the node is kept as a leaf whenever that
\* cost is >= num_tris * surface_area(node), and is swept with the selected
\* axis and position otherwise.
C21_LowestAxisLowestBin ==
    [][(pc = "split" /\ stack # <<>>) =>
         LET costs == CostsOfNode
             c == LowestOfMinimalCost(costs)
         IN  IF FGe(costs[c + 1], parent_cost(SweepNode))
             THEN /\ pc' = "split"
                  /\ stack' = Tail(stack)
                  /\ nodes' = nodes
                  /\ tris' = tris
             ELSE /\ pc' = "partition"
                  /\ split'.best_split_axis = c \div NUM_BINS
                  /\ split'.best_split_pos8 =
                         SplitPos8(SweepNode, c \div NUM_BINS, c % NUM_BINS)]_vars

(***************************************************************************)
(* The pixel coordinates of the driver.                                    *)
(***************************************************************************)
\* The x and y the closure computed for the pixel of index k.
CoordsOf(k) == <<collected[k][1].color.x, collected[k][1].color.y>>

\* C22: every pixel the driver renders has an index in [0, W * H), its x is
\* in [0, W - 1] and its y in [1, H], so that y is never 0 and the
\* subtraction height - index / width never goes below 0, and two pixels of
\* different indices have different (x, y).
C22_PixelCoordinates ==
    \A k \in DOMAIN collected :
        /\ k \in 0 .. NumPixels - 1
        /\ CoordsOf(k)[1] \in 0 .. image.width - 1
        /\ CoordsOf(k)[2] \in 1 .. image.height
        /\ \A m \in DOMAIN collected : m # k => CoordsOf(m) # CoordsOf(k)

\* A frame of two rows and two columns is finished: the first pixel has
\* y = height, the last one x = width - 1 and y = 1.
C22_Witness ==
    /\ blocks.state = "done"
    /\ image.width >= 2
    /\ image.height >= 2
    /\ DOMAIN collected = 0 .. NumPixels - 1
    /\ CoordsOf(0) = <<0, image.height>>
    /\ CoordsOf(NumPixels - 1) = <<image.width - 1, 1>>

(***************************************************************************)
(* The sides of the selected split.                                        *)
(***************************************************************************)
\* The bounds of the node are finite f32 values.
FiniteBounds(node) ==
    \A a \in 1 .. 3 :
        /\ node.bounds_min[a] \in -F32_MAX .. F32_MAX
        /\ node.bounds_max[a] \in -F32_MAX .. F32_MAX

\* The number of triangles of the swept node with the centroid below
\* split_pos on the split axis.
LeftCount == Cardinality({ k \in SweepRange : OnLeft(At(tris, k)) })

\* C27: for a node of at least one triangle and finite bounds, a sweep that
\* runs has at least one and fewer than all of the node's centroids below
\* split_pos; so when it ends a_count is neither 0 nor num_tris, and j is
\* never decremented below 0 (no panic and no wrapped j).
C27_BothSidesNonEmpty ==
    (stack # <<>> /\ SweepNode.num_tris >= 1 /\ FiniteBounds(SweepNode)) =>
        /\ pc # "panic"
        /\ pc = "partition" =>
              /\ LeftCount \in 1 .. SweepNode.num_tris - 1
              /\ j # USIZE_MAX
              /\ i > j => i - SweepNode.first_tri_id \in 1 .. SweepNode.num_tris - 1

(***************************************************************************)
(* The medium bookkeeping of Ray::trace.                                   *)
(***************************************************************************)
\* The step is the hit branch of a bounce, from the material lookup on.
HitBranch == tpc = "shade" /\ tpc' # "panic"

\* C23: in one call of Ray::trace, prev_hit_point starts as ray.origin and
\* changes only in the hit branch of a front-face hit, to the hit point;
\* transmitted_distance starts as 0 and changes only in the hit branch of a
\* back-face hit, to the distance from the hit point to prev_hit_point; so
\* it is 0 until the first back-face hit and keeps its last value on later
\* bounces.  The effective ior of a hit is 1 / material.ior on the front
\* face and material.ior on the back face.
C23_MediumBookkeeping ==
    [][/\ (tpc = "idle" /\ tpc' # "idle") =>
              /\ light'.prev_hit_point = light'.origin
              /\ light'.transmitted_distance = 0
       /\ (tpc # "idle" /\ light'.prev_hit_point # light.prev_hit_point) =>
              /\ HitBranch
              /\ hit_info.front_face
       /\ (tpc # "idle" /\ light'.transmitted_distance # light.transmitted_distance) =>
              /\ HitBranch
              /\ ~hit_info.front_face
       /\ HitBranch =>
              LET ior == At(materials, hit_info.material_id).ior
              IN  IF hit_info.front_face
                  THEN /\ light'.prev_hit_point = hit_info.point
                       /\ light'.transmitted_distance = light.transmitted_distance
                       /\ ior[1] * light'.ior[1] = ior[2] * light'.ior[2]
                  ELSE /\ light'.prev_hit_point = light.prev_hit_point
                       /\ light'.transmitted_distance =
                              distance(hit_info.point, light.prev_hit_point)
                       /\ light'.ior = ior]_vars

\* The second bounce has met the front of the third face after the first
\* met the back of the second, 2 below the origin of the ray, and the ray
\* went straight on: transmitted_distance is still 2, and prev_hit_point
\* has moved from the origin to the new hit point.
C23_Witness ==
    /\ tpc = "emission"
    /\ curr_bounces = 1
    /\ hit_info.front_face
    /\ hit_info.point = <<2500, 2500, 0 - (8 * Unit)>>
    /\ light.prev_hit_point = hit_info.point
    /\ light.transmitted_distance = 2 * Unit
    /\ light.ior = <<100, 145>>

(***************************************************************************)
(* The saved file.                                                         *)
(***************************************************************************)
\* C30: after Image::write_to_path(path) the file at path is exactly the
\* header "P3\n<W> <H>\n255\n" followed by one "R G B " triple per pixel in
\* pixel order, with the row newlines, and nothing else, whatever the file
\* held before: a second save leaves no byte of the earlier file behind.
C30_FileIsExactlyTheFrame ==
    saved => output_ppm = Header(image) \o Buffer(image, 0)

(***************************************************************************)
(* Texture::color_at on every texture.                                     *)
(***************************************************************************)
\* C28: for every texture the loader can produce (textures of 0 or 1 texel
\* included) and every uv, Texture::color_at comes to an end and returns
\* pixel_data[k] with 0 <= k < pixel_data.len(): both wrap loops end, the
\* index read is in range, and there is no panic.
C28_ColorAtReturnsTexel ==
    /\ [](tpc = "texel" =>
              sample.index \in 0 .. Len(At(textures, sample.tex).pixel_data) - 1)
    /\ [](tpc # "panic")
    /\ <>(tpc = "returned")

(***************************************************************************)
(* The materials of a material file.                                       *)
(***************************************************************************)
\* One material per newmtl line among the lines from k on, in file order,
\* each with the attributes of the lines between its newmtl line and the
\* next one; mats are the materials of the lines before k.
RECURSIVE MaterialsByNewmtl(_, _, _)
MaterialsByNewmtl(ls, k, mats) ==
    IF k > Len(ls) THEN mats
    ELSE MaterialsByNewmtl(ls, k + 1,
             IF ls[k].prefix = "newmtl"
             THEN Append(mats, [DefaultMaterial EXCEPT !.name = ls[k].name])
             ELSE IF mats = <<>> THEN mats
             ELSE IF ls[k].prefix = "Kd"
             THEN [mats EXCEPT ![Len(mats)].base_color = ls[k].vals]
             ELSE IF ls[k].prefix = "Ni"
             THEN [mats EXCEPT ![Len(mats)].ior = ls[k].vals]
             ELSE mats)

\* load_mtl has read the whole file.
MtlLoaded == ~material.open /\ lines = <<>>

\* C29: OBJ::load_mtl creates exactly one material per newmtl line of the
\* material file, in file order, and each material has the attributes
\* written between its own newmtl line and the next newmtl line and no
\* others, whether or not blank lines separate the blocks.
C29_OneMaterialPerNewmtl ==
    MtlLoaded => materials = MaterialsByNewmtl(file, 1, <<>>)

(***************************************************************************)
(* C25: the two locks frame_buffer and is_rendering cannot deadlock: no    *)
(* thread waits for one of them while another thread holds it and waits    *)
(* for the other one.                                                      *)
(***************************************************************************)
\* The mutex the UI thread is about to lock ("none": it waits for neither).
UiWaitsFor ==
    CASE ui \in {"update", "save"} /\ locks.frame_buffer # ByUi -> "frame_buffer"
      [] ui = "update_copy" -> "is_rendering"
      [] ui = "start_render" -> "is_rendering"
      [] OTHER -> "none"

\* The mutex the render thread t is about to lock.
ThreadWaitsFor(t) ==
    CASE threads[t] = "lock_frame_buffer" -> "frame_buffer"
      [] threads[t] = "lock_is_rendering" -> "is_rendering"
      [] OTHER -> "none"

Other(mutex) == IF mutex = "frame_buffer" THEN "is_rendering" ELSE "frame_buffer"

C25_NoDeadlock ==
    \A t \in ThreadIds :
        /\ ~(/\ UiWaitsFor # "none"
             /\ locks[UiWaitsFor] = ByThread(t)
             /\ ThreadWaitsFor(t) = Other(UiWaitsFor)
             /\ locks[Other(UiWaitsFor)] = ByUi)
        /\ \A u \in ThreadIds \ {t} :
               ~(/\ ThreadWaitsFor(t) # "none"
                 /\ locks[ThreadWaitsFor(t)] = ByThread(u)
                 /\ ThreadWaitsFor(u) = Other(ThreadWaitsFor(t))
                 /\ locks[Other(ThreadWaitsFor(t))] = ByThread(t))

\* The UI thread holds frame_buffer in update and waits for is_rendering,
\* which a render thread holds.
C25_Witness ==
    /\ ui = "update_copy"
    /\ locks.frame_buffer = ByUi
    /\ \E t \in ThreadIds : locks.is_rendering = ByThread(t) /\ threads[t] = "clear"

(***************************************************************************)
(* C24: whenever App::update returns false, the frame it has copied is the *)
(* frame of the render that completed last (the zeroed buffer of App::new  *)
(* as long as no render has completed).                                    *)
(***************************************************************************)
C24_NoStaleFrame ==
    [][(ui = "update_copy" /\ ui' = "events" /\ ~UpdateResult)
          => pixels = completed]_vars

\* update has copied the frame of the completed render and has returned
\* false.
C24_Witness ==
    /\ ui = "events"
    /\ ~is_rendering
    /\ frame_buffer # 0
    /\ pixels = frame_buffer
    /\ pixels = completed

(***************************************************************************)
(* C26: whenever a scene is loaded, camera_dirty is true and no render is  *)
(* in progress, then, redraw events being delivered, the user's events     *)
(* having come to an end and every render_to_image returning,              *)
(* RedrawRequested eventually calls start_render and clears camera_dirty;  *)
(* auto_rotate may be on and the mouse buttons may have been pressed and   *)
(* released.                                                               *)
(***************************************************************************)
PendingChange == scene = "Some" /\ camera_dirty /\ ~is_rendering

RenderRequested == ui = "start_render" /\ ret = "egui" /\ ~camera_dirty

RendersReturn == \A t \in ThreadIds : threads[t] # "panicked"

C26_PendingChangeRendered ==
    ((<>[][~UserInput]_vars) /\ []RendersReturn)
        => (PendingChange ~> RenderRequested)
=============================================================================
